---- MODULE Spec2Model ----
(***************************************************************************)
(* A model of WFSFeatureServer: the embedded store (layers, features), the *)
(* admin layer CRUD, the ingest pipeline (import_file), the WFS-T          *)
(* transaction engine (execute_transaction) and the GetFeature query path. *)
(*                                                                         *)
(* Conventions.                                                            *)
(*  - SQL NULL / Python None for a bbox is the empty tuple <<>>; a bbox is *)
(*    otherwise <<minx, miny, maxx, maxy>>.  The four bbox columns of a    *)
(*    row are always written together by the code, so they are modelled as *)
(*    one value that is NULL or complete.                                  *)
(*  - A geometry is [type, coords, geoms]; the NULL one has type "NULL".   *)
(*  - The features table is a sequence in rowid order: ids are             *)
(*    AUTOINCREMENT, so ORDER BY id is insertion order and a row's         *)
(*    position stands for its id.                                          *)
(*  - One request handler runs as one action (requests do not interleave   *)
(*    in Spec); the session's uncommitted view and the committed store are *)
(*    kept apart inside each action, as sqlite3's "with db:" does.  The    *)
(*    handler's response stays in resp until Deliver sends it; the next    *)
(*    request is taken after that.                                         *)
(*  - In ConcSpec two handlers run next to each other, each on its own     *)
(*    session; a step is one read of the store, or one unit of work from   *)
(*    its first write to its commit (the store has one writer at a time).  *)
(***************************************************************************)
EXTENDS Integers, Sequences, FiniteSets, TLC

VARIABLES
    layers,       \* the layers table: layer id -> row
    features,     \* the features table (committed), in rowid order
    nextLayerId,  \* sqlite_sequence for layers (AUTOINCREMENT)
    resp,         \* the response of the request being answered, NoResp
                  \* once it has been sent and the server awaits a request
    rules,        \* the symbology_rules table (committed), in rowid order
    sessions,     \* the requests in flight next to each other: for each
                  \* handler its position and what it has read so far
    uploads       \* the uploads directory: temp path -> content of the file

vars == <<layers, features, nextLayerId, resp, rules, sessions, uploads>>

\* What only handlers that run next to each other change.
inflight == <<rules, sessions, uploads>>

----------------------------------------------------------------------------
(* Bounds of the model *)

MaxLayers == 2      \* layer rows ever created
MaxRows == 2        \* feature rows held by the store at one time
MaxOps == 2         \* children of one wfs:Transaction
MaxRecords == 2     \* features of one ingested blob

----------------------------------------------------------------------------
(* Values *)

NoBBox == <<>>

LayerNames == {"roads", "parks"}

\* Fids are dot-separated token sequences: "a" is <<"a">>, "roads.a" is
\* <<"roads", "a">>.  UuidPool holds the ids uuid4 can generate.
UuidPool == {<<"u1">>}

\* A geometry is [type, coords, geoms]: a Point, a LineString and the rings
\* of a Polygon hold coordinate pairs; a Polygon holds its rings in geoms,
\* the exterior first; the Multi classes and a GeometryCollection hold
\* their parts in geoms.
Geom(type, coords, geoms) == [type |-> type, coords |-> coords, geoms |-> geoms]

NoGeom == Geom("NULL", <<>>, <<>>)
Pt == Geom("Point", <<<<1, 2>>>>, <<>>)
Ln == Geom("LineString", <<<<0, 0>>, <<2, 1>>>>, <<>>)
EmptyGeom == Geom("GeometryCollection", <<>>, <<>>)

----------------------------------------------------------------------------
(* Generic helpers *)

Range(s) == {s[i] : i \in 1..Len(s)}

Min(S) == CHOOSE x \in S : \A y \in S : x <= y
Max(S) == CHOOSE x \in S : \A y \in S : x >= y

SeqsUpTo(S, n) == UNION {[1..k -> S] : k \in 0..n}

\* Texts are sequences of one-character strings.
Digits == <<"0", "1", "2", "3", "4", "5", "6", "7", "8", "9">>
DigitValue(c) == (CHOOSE i \in 1..10 : Digits[i] = c) - 1

\* needle in hay, for texts
Contains(hay, needle) ==
    \E i \in 0..(Len(hay) - Len(needle)) : SubSeq(hay, i + 1, i + Len(needle)) = needle

\* The number a run of digits writes.
RECURSIVE DecimalValue(_)
DecimalValue(t) ==
    IF t = <<>> THEN 0
    ELSE 10 * DecimalValue(SubSeq(t, 1, Len(t) - 1)) + DigitValue(t[Len(t)])

\* The digits that write a natural number (str(n)).
RECURSIVE IntText(_)
IntText(n) ==
    IF n < 10 THEN <<Digits[n + 1]>>
    ELSE IntText(n \div 10) \o <<Digits[(n % 10) + 1]>>

TEpsg == <<"E", "P", "S", "G">>
TColon == <<":">>
T4326 == <<"4", "3", "2", "6">>
T3857 == <<"3", "8", "5", "7">>
TUrn == <<"u", "r", "n", ":", "o", "g", "c", ":", "d", "e", "f", ":", "c", "r", "s", ":">>
TCrs84 == <<"O", "G", "C", ":", "1", ".", "3", ":", "C", "R", "S", "8", "4">>

----------------------------------------------------------------------------
(* Geometry helpers (services/geometry_service.py) *)

\* The coordinate pairs of a geometry, those of its parts included.
RECURSIVE ConcatAll(_)
ConcatAll(seqs) == IF seqs = <<>> THEN <<>> ELSE Head(seqs) \o ConcatAll(Tail(seqs))

RECURSIVE AllCoords(_)
AllCoords(geom) ==
    geom.coords \o ConcatAll([i \in 1..Len(geom.geoms) |-> AllCoords(geom.geoms[i])])

\* geom.bounds.  For an empty geometry shapely returns () (1.x) or four NaN
\* (2.x); sqlite3 binds NaN as NULL, so either way the columns written
\* from it are NULL, which is NoBBox here.
bbox_from_geom(geom) ==
    IF AllCoords(geom) = <<>> THEN NoBBox
    ELSE LET xs == {AllCoords(geom)[i][1] : i \in 1..Len(AllCoords(geom))}
             ys == {AllCoords(geom)[i][2] : i \in 1..Len(AllCoords(geom))}
         IN <<Min(xs), Min(ys), Max(xs), Max(ys)>>

\* shapely.wkb.dumps / loads: the stored BLOB of a geometry and back.
geom_to_wkb(geom) == [wkb |-> geom]
wkb_to_geom(blob) == blob.wkb
NullWkb == [wkb |-> NoGeom]

\* A GML geometry element: [tag, srsName, pos, wellformed, members].
\* srsName is the attribute's text (<<>> when absent), pos the coordinate
\* pairs written in its gml:pos / gml:posList, members the elements it
\* wraps (the LinearRings of a Polygon, exterior first; the member
\* geometries of a Multi element); wellformed is FALSE when a required
\* child element (gml:pos, gml:posList, gml:exterior/gml:LinearRing) is
\* missing.
Elem(tag, srsName, pos, wellformed, members) ==
    [tag |-> tag, srsName |-> srsName, pos |-> pos, wellformed |-> wellformed,
     members |-> members]

NoGml == Elem("none", <<>>, <<>>, TRUE, <<>>)

\* f"urn:ogc:def:crs:EPSG::{srid}"
SrsUrn(srid) == TUrn \o TEpsg \o TColon \o TColon \o IntText(srid)

Srs4326 == SrsUrn(4326)

\* _coords_str / the pos of _point_gml: each pair written "y x" under
\* swap, "x y" otherwise.
coords_str(coords, swap) ==
    [i \in 1..Len(coords) |-> IF swap THEN <<coords[i][2], coords[i][1]>> ELSE coords[i]]

\* _ring_gml
ring_gml(ring, swap) == Elem("LinearRing", <<>>, coords_str(ring.coords, swap), TRUE, <<>>)

\* The GML tag _geom_to_gml writes for a geometry class; "" is the
\* ValueError of an unsupported class.
GmlTagOf(gtype) ==
    CASE gtype = "Point" -> "Point"
      [] gtype = "LineString" -> "LineString"
      [] gtype = "Polygon" -> "Polygon"
      [] gtype = "MultiPoint" -> "MultiPoint"
      [] gtype = "MultiLineString" -> "MultiCurve"
      [] gtype = "MultiPolygon" -> "MultiSurface"
      [] gtype = "GeometryCollection" -> "MultiGeometry"
      [] OTHER -> ""

RECURSIVE geom_to_gml(_, _, _)
\* _geom_to_gml with _point_gml, _linestring_gml, _polygon_gml and
\* _multi_gml: the element tree of a geometry.  An element tagged "" is a
\* geometry the emitter raises on (an unsupported class, geom.x of an
\* empty Point).
geom_to_gml(geom, srs, swap) ==
    CASE geom.type = "Point" ->
           IF geom.coords = <<>> THEN Elem("", srs, <<>>, TRUE, <<>>)
           ELSE Elem("Point", srs, coords_str(<<geom.coords[1]>>, swap), TRUE, <<>>)
      [] geom.type = "LineString" ->
           Elem("LineString", srs, coords_str(geom.coords, swap), TRUE, <<>>)
      [] geom.type = "Polygon" ->
           Elem("Polygon", srs, <<>>, TRUE,
                [i \in 1..Len(geom.geoms) |-> ring_gml(geom.geoms[i], swap)])
      [] OTHER ->
           Elem(GmlTagOf(geom.type), srs, <<>>, TRUE,
                [i \in 1..Len(geom.geoms) |-> geom_to_gml(geom.geoms[i], srs, swap)])

\* wkb_to_gml32
wkb_to_gml32(blob, srid) == geom_to_gml(wkb_to_geom(blob), SrsUrn(srid), srid = 4326)

\* The places of srs where re.search(r"EPSG::(\d+)") can match.
SrsMatches(srs) ==
    {i \in 1..(Len(srs) - 6) :
        /\ SubSeq(srs, i, i + 5) = TEpsg \o TColon \o TColon
        /\ srs[i + 6] \in Range(Digits)}

\* The run of digits of srs that starts at place i.
DigitRun(srs, i) ==
    SubSeq(srs, i,
           Max({j \in i..Len(srs) : \A k \in i..j : srs[k] \in Range(Digits)}))

\* _parse_srs: (srid, swap); the srid is the integer after the first
\* "EPSG::", 4326 when srsName is absent or has no such match.
parse_srs(elem) ==
    LET srid == IF SrsMatches(elem.srsName) = {} THEN 4326
                ELSE DecimalValue(DigitRun(elem.srsName,
                                           Min(SrsMatches(elem.srsName)) + 6))
    IN [srid |-> srid, swap |-> (srid = 4326)]

\* _parse_pos / _parse_poslist
parse_poslist(pos, swap) ==
    [i \in 1..Len(pos) |-> IF swap THEN <<pos[i][2], pos[i][1]>> ELSE pos[i]]

\* The geometry class _parse_gml_element builds for a tag.
GmlTypeOf(tag) ==
    CASE tag = "Point" -> "Point"
      [] tag = "LineString" -> "LineString"
      [] tag = "Polygon" -> "Polygon"
      [] tag = "MultiPoint" -> "MultiPoint"
      [] tag = "MultiCurve" -> "MultiLineString"
      [] tag = "MultiSurface" -> "MultiPolygon"
      [] tag = "MultiGeometry" -> "GeometryCollection"
      [] OTHER -> "unsupported"

\* What a parser gives: [ok, geom]; not ok stands for the ValueError of
\* _find_text / _parse_gml_element / shapely's constructors.
ParseFail == [ok |-> FALSE, geom |-> NoGeom]
ParseOk(geom) == [ok |-> TRUE, geom |-> geom]

\* _find_text gives the text of elem's child gml:<child>: the element
\* must have that child with a text that is not empty.
HasText(elem, child) ==
    /\ elem.wellformed
    /\ elem.pos # <<>>
    /\ child = (IF elem.tag = "Point" THEN "pos" ELSE "posList")
    /\ elem.tag \in {"Point", "LineString", "LinearRing"}

\* _parse_point: the first pair of gml:pos.
parse_point(elem, swap) ==
    IF ~HasText(elem, "pos") THEN ParseFail
    ELSE ParseOk(Geom("Point", parse_poslist(<<elem.pos[1]>>, swap), <<>>))

\* _parse_linestring: shapely takes no LineString of one pair.
parse_linestring(elem, swap) ==
    IF ~HasText(elem, "posList") \/ Len(elem.pos) < 2 THEN ParseFail
    ELSE ParseOk(Geom("LineString", parse_poslist(elem.pos, swap), <<>>))

\* shapely closes a ring whose last pair is not its first.
CloseRing(coords) ==
    IF coords # <<>> /\ coords[Len(coords)] # coords[1]
    THEN Append(coords, coords[1]) ELSE coords

\* _parse_linearring
parse_linearring(elem, swap) ==
    IF ~HasText(elem, "posList") THEN ParseFail
    ELSE ParseOk(Geom("LinearRing", CloseRing(parse_poslist(elem.pos, swap)), <<>>))

\* What the parsers of the parts of an element give together: the error
\* of a part is the error of the whole.
Parts(type, parts) ==
    IF \E i \in 1..Len(parts) : ~parts[i].ok THEN ParseFail
    ELSE ParseOk(Geom(type, <<>>, [i \in 1..Len(parts) |-> parts[i].geom]))

\* _parse_polygon: exterior and interior rings; a ring needs four pairs.
parse_polygon(elem, swap) ==
    IF ~elem.wellformed \/ elem.tag # "Polygon" \/ elem.members = <<>> THEN ParseFail
    ELSE IF \E i \in 1..Len(elem.members) :
               Len(parse_linearring(elem.members[i], swap).geom.coords) < 4
         THEN ParseFail
         ELSE Parts("Polygon",
                    [i \in 1..Len(elem.members) |-> parse_linearring(elem.members[i], swap)])

\* The part parser _parse_multi is handed for a Multi tag; "" is
\* _parse_gml_element itself.
PartParser(tag) ==
    CASE tag = "MultiPoint" -> "Point"
      [] tag = "MultiCurve" -> "LineString"
      [] tag = "MultiSurface" -> "Polygon"
      [] OTHER -> ""

RECURSIVE parse_element(_, _, _)
\* _parse_gml_element with _parse_multi: parser is the part parser a Multi
\* element applies to its member whatever the member's tag, "" when the
\* element's own tag decides.
parse_element(parser, elem, swap) ==
    CASE (IF parser = "" THEN elem.tag ELSE parser) = "Point" -> parse_point(elem, swap)
      [] (IF parser = "" THEN elem.tag ELSE parser) = "LineString" ->
           parse_linestring(elem, swap)
      [] (IF parser = "" THEN elem.tag ELSE parser) = "Polygon" -> parse_polygon(elem, swap)
      [] parser = "" /\ elem.tag \in {"MultiPoint", "MultiCurve", "MultiSurface",
                                     "MultiGeometry"} ->
           Parts(GmlTypeOf(elem.tag),
                 [i \in 1..Len(elem.members) |->
                     parse_element(PartParser(elem.tag), elem.members[i], swap)])
      [] OTHER -> ParseFail

\* _parse_gml_element under the (srid, swap) that _parse_srs gave:
\* [ok, geom, srid].
parse_gml_element(elem, srs) ==
    [ok |-> parse_element("", elem, srs.swap).ok,
     geom |-> parse_element("", elem, srs.swap).geom,
     srid |-> srs.srid]

\* gml32_to_geom
gml32_to_geom(elem) == parse_gml_element(elem, parse_srs(elem))

\* make_transformer: a transformer exists iff the SRIDs differ.
make_transformer(from_srid, to_srid) == from_srid # to_srid

RECURSIVE reproject_geom(_)
\* reproject_geom through pyproj, which the repository treats as opaque:
\* a stand-in that moves every coordinate pair.
reproject_geom(geom) ==
    Geom(geom.type,
         [i \in 1..Len(geom.coords) |-> <<geom.coords[i][1] + 3, geom.coords[i][2] + 3>>],
         [i \in 1..Len(geom.geoms) |-> reproject_geom(geom.geoms[i])])

\* Reprojection of a parsed geometry p to the storage CRS (4326) if its
\* srid differs.
ToStorageCrs(p) ==
    IF ~p.ok THEN p
    ELSE IF make_transformer(p.srid, 4326)
         THEN [p EXCEPT !.geom = reproject_geom(p.geom)]
         ELSE p

\* The parse-and-reproject block shared by _handle_insert and
\* _handle_update: gml32_to_geom, then reprojection to 4326 if needed.
GmlToStorage(elem) == ToStorageCrs(gml32_to_geom(elem))

----------------------------------------------------------------------------
(* Property maps *)

\* A property value is tagged with its JSON type.
StrVal(s) == [t |-> "String", v |-> s]
NullVal == [t |-> "Null", v |-> ""]
IntVal(s) == [t |-> "Integer", v |-> s]
RealVal(s) == [t |-> "Real", v |-> s]
BoolVal(s) == [t |-> "Boolean", v |-> s]

\* The properties column holds JSON text; json.dumps / json.loads are taken
\* as exact inverses on it.  kind is "object" for a mapping and "array" for
\* a JSON value that is not one.
Props(m) == [kind |-> "object", items |-> m]
EmptyMap == [k \in {} |-> NullVal]
ArrayProps == [kind |-> "array", items |-> EmptyMap]

\* An assignment of the changes in place of the merge.
MapUpdate_Replace(m, u) == u

\* dict.update
MapUpdate(m, u) ==
    [k \in (DOMAIN m) \cup (DOMAIN u) |-> IF k \in DOMAIN u THEN u[k] ELSE m[k]]

----------------------------------------------------------------------------
(* Client-visible ids *)

\* An id that is never stripped.
StripPrefix_Never(raw, layer_name) == raw

\* raw.startswith(layer_name + ".") and the strip that follows
\* (_handle_insert, _parse_resource_ids).
StripPrefix(raw, layer_name) ==
    IF Len(raw) >= 2 /\ raw[1] = layer_name THEN Tail(raw) ELSE raw

parse_resource_ids(rids, layer_name) ==
    [i \in 1..Len(rids) |-> StripPrefix(rids[i], layer_name)]

\* f"{layer.name}.{feat.fid}": the id GetFeature emits for a stored feature.
feature_id(layer_name, fid) == <<layer_name>> \o fid

\* The rid attributes of wfs:InsertResults, one per (layer, fid) inserted.
insert_results(inserted) ==
    [i \in 1..Len(inserted) |-> feature_id(inserted[i][1], inserted[i][2])]

----------------------------------------------------------------------------
(* Exceptions: the class raised, the code a _WfsError carries, and what    *)
(* went wrong at the place that raised it.                                 *)

NoErr == [type |-> "none", code |-> "", cause |-> ""]
WfsError(code, cause) == [type |-> "_WfsError", code |-> code, cause |-> cause]
PyError(type, cause) == [type |-> type, code |-> "", cause |-> cause]

----------------------------------------------------------------------------
(* The store *)

Row(layer_id, fid, geom, properties, bbox) ==
    [layer_id |-> layer_id, fid |-> fid, geometry |-> geom_to_wkb(geom),
     properties |-> properties, bbox |-> bbox]

NullRow(layer_id, fid, properties) ==
    [layer_id |-> layer_id, fid |-> fid, geometry |-> NullWkb,
     properties |-> properties, bbox |-> NoBBox]

\* A features table without the UNIQUE constraint.
UniqueOk_NoConstraint(feats, layer_id, fid) == TRUE

\* UNIQUE(layer_id, fid) of the features table: may a row with this key be
\* added to feats?
UniqueOk(feats, layer_id, fid) ==
    \A i \in 1..Len(feats) : ~(feats[i].layer_id = layer_id /\ feats[i].fid = fid)

RowsOf(feats, layer_id) == {i \in 1..Len(feats) : feats[i].layer_id = layer_id}

\* MIN(bbox_minx), MIN(bbox_miny), MAX(bbox_maxx), MAX(bbox_maxy) over the
\* rows idx of feats; SQL aggregates skip NULL and give NULL over nothing.
AggBBox(feats, idx) ==
    LET withBox == {i \in idx : feats[i].bbox # NoBBox}
    IN IF withBox = {} THEN NoBBox
       ELSE <<Min({feats[i].bbox[1] : i \in withBox}),
              Min({feats[i].bbox[2] : i \in withBox}),
              Max({feats[i].bbox[3] : i \in withBox}),
              Max({feats[i].bbox[4] : i \in withBox})>>

\* SELECT * FROM layers WHERE name = ?
LayerIdsNamed(lyrs, name) == {id \in DOMAIN lyrs : lyrs[id].name = name}

\* _get_layer: the layer id, or _WfsError InvalidParameterValue.
get_layer(lyrs, name) ==
    IF LayerIdsNamed(lyrs, name) = {}
    THEN [err |-> WfsError("InvalidParameterValue", "unknown_layer"), id |-> 0]
    ELSE [err |-> NoErr, id |-> CHOOSE id \in LayerIdsNamed(lyrs, name) : TRUE]

NewLayer(id, name) ==
    [id |-> id, name |-> name, geometry_type |-> "", srid |-> 4326,
     bbox |-> NoBBox, feature_count |-> 0,
     attribute_schema |-> [k \in {} |-> ""]]

----------------------------------------------------------------------------
(* WFS-T transaction engine (services/transaction_service.py)              *)
(*                                                                         *)
(* A transaction state st is the session's view while the unit of work is  *)
(* open: its features and layers, the running totals, the layers touched,  *)
(* and the exception raised so far (NoErr while none).  outOfPool marks a  *)
(* run that needs more generated ids than UuidPool holds.                  *)

TxBegin(feats, lyrs) ==
    [features |-> feats, layers |-> lyrs, inserted |-> <<>>, updated |-> 0,
     deleted |-> 0, affected |-> {}, err |-> NoErr, outOfPool |-> FALSE]

Raise(st, e) == [st EXCEPT !.err = e]

\* str(uuid.uuid4()): an id no stored row carries.
FreshIds(feats) == UuidPool \ {feats[i].fid : i \in 1..Len(feats)}

\* One iteration of _handle_insert's loop once the layer lookup lk and the
\* parsed geometry p are at hand.
insert_feature_row(st, fe, lk, p) ==
    LET needUuid == fe.gmlid = <<>>
        raw == IF ~needUuid THEN fe.gmlid
               ELSE IF FreshIds(st.features) = {} THEN <<"u0">>
               ELSE CHOOSE u \in FreshIds(st.features) : TRUE
        fid == StripPrefix(raw, fe.tag)
        row == IF fe.geom = NoGml
               THEN NullRow(lk.id, fid, Props(fe.props))
               ELSE Row(lk.id, fid, p.geom, Props(fe.props), bbox_from_geom(p.geom))
    IN IF lk.err # NoErr THEN Raise(st, lk.err)
       ELSE IF needUuid /\ FreshIds(st.features) = {}
            THEN [st EXCEPT !.outOfPool = TRUE]
       ELSE IF fe.geom # NoGml /\ ~p.ok
            THEN Raise(st, PyError("ValueError", "malformed_gml"))
       ELSE IF ~UniqueOk(st.features, lk.id, fid)
            THEN Raise(st, PyError("IntegrityError", "duplicate_fid"))
       ELSE [st EXCEPT !.features = Append(st.features, row),
                       !.inserted = Append(st.inserted, <<fe.tag, fid>>),
                       !.affected = st.affected \cup {lk.id}]

\* One iteration of _handle_insert's loop: one feature element
\* [tag, gmlid, geom, props]; gmlid <<>> when the element has no gml:id.
handle_insert_feature(st, fe) ==
    insert_feature_row(st, fe, get_layer(st.layers, fe.tag), GmlToStorage(fe.geom))

RECURSIVE handle_insert(_, _, _)
\* _handle_insert over elem.features from position i on.
handle_insert(st, elem, i) ==
    IF st.err # NoErr \/ st.outOfPool \/ i > Len(elem.features) THEN st
    ELSE handle_insert(handle_insert_feature(st, elem.features[i]), elem, i + 1)

\* A lookup by fid alone.
FindRow_AnyLayer(feats, layer_id, fid) ==
    LET hits == {i \in 1..Len(feats) : feats[i].fid = fid}
    IN IF hits = {} THEN 0 ELSE Min(hits)

\* SELECT id, properties FROM features WHERE layer_id = ? AND fid = ?
\* (fetchone): the position of the row, 0 when there is none.
FindRow(feats, layer_id, fid) ==
    LET hits == {i \in 1..Len(feats) : feats[i].layer_id = layer_id /\ feats[i].fid = fid}
    IN IF hits = {} THEN 0 ELSE Min(hits)

\* The body of _handle_update's loop for the row at position i (0: the
\* SELECT found none).
update_found_row(st, i, prop_updates, hasGeom, geom) ==
    LET row == st.features[i]
        hasProps == DOMAIN prop_updates # {}
        merged == Props(MapUpdate(row.properties.items, prop_updates))
        r1 == IF hasProps THEN [row EXCEPT !.properties = merged] ELSE row
        r2 == IF hasGeom
              THEN [r1 EXCEPT !.geometry = geom_to_wkb(geom),
                              !.bbox = bbox_from_geom(geom)]
              ELSE r1
    IN IF i = 0 THEN st
       ELSE IF hasProps /\ row.properties.kind # "object"
            THEN Raise(st, PyError("AttributeError", "properties_not_object"))
       ELSE IF hasProps \/ hasGeom
            THEN [st EXCEPT !.features[i] = r2, !.updated = st.updated + 1]
       ELSE st

\* One iteration of _handle_update's loop over fids.
handle_update_row(st, layer_id, fid, prop_updates, hasGeom, geom) ==
    update_found_row(st, FindRow(st.features, layer_id, fid), prop_updates, hasGeom, geom)

RECURSIVE handle_update_rows(_, _, _, _, _, _, _)
handle_update_rows(st, layer_id, fids, k, prop_updates, hasGeom, geom) ==
    IF st.err # NoErr \/ k > Len(fids) THEN st
    ELSE handle_update_rows(
             handle_update_row(st, layer_id, fids[k], prop_updates, hasGeom, geom),
             layer_id, fids, k + 1, prop_updates, hasGeom, geom)

\* The return of _handle_update after its loop: (count, layer.id).
update_return(done, layer_id) ==
    IF done.err # NoErr THEN done
    ELSE [done EXCEPT !.affected = done.affected \cup {layer_id}]

\* _handle_update once the layer lookup lk, the parsed geometry p and the
\* fids of the filter are at hand.
update_in_layer(st, elem, lk, p, fids) ==
    IF lk.err # NoErr THEN Raise(st, lk.err)
    ELSE IF elem.geom # NoGml /\ ~p.ok
         THEN Raise(st, PyError("ValueError", "malformed_gml"))
    ELSE IF fids = <<>> THEN [st EXCEPT !.affected = st.affected \cup {lk.id}]
    ELSE update_return(handle_update_rows(st, lk.id, fids, 1, elem.prop_updates,
                                          elem.geom # NoGml, p.geom),
                       lk.id)

\* _handle_update: elem is [typeName, prop_updates, geom, rids].
handle_update(st, elem) ==
    update_in_layer(st, elem, get_layer(st.layers, elem.typeName),
                    GmlToStorage(elem.geom),
                    parse_resource_ids(elem.rids, elem.typeName))

\* _handle_delete once the layer lookup lk and the fids of the filter are
\* at hand: DELETE FROM features WHERE layer_id = ? AND fid IN (...)
delete_in_layer(st, lk, fids) ==
    LET kept == SelectSeq(st.features,
                          LAMBDA r : ~(r.layer_id = lk.id /\ r.fid \in Range(fids)))
    IN IF lk.err # NoErr THEN Raise(st, lk.err)
       ELSE IF fids = <<>> THEN [st EXCEPT !.affected = st.affected \cup {lk.id}]
       ELSE [st EXCEPT !.features = kept,
                       !.deleted = st.deleted + (Len(st.features) - Len(kept)),
                       !.affected = st.affected \cup {lk.id}]

\* _handle_delete
handle_delete(st, elem) ==
    delete_in_layer(st, get_layer(st.layers, elem.typeName),
                    parse_resource_ids(elem.rids, elem.typeName))

\* The dispatch on a child's local name in execute_transaction's loop.
exec_child(st, child) ==
    CASE child.tag = "Insert" -> handle_insert(st, child, 1)
      [] child.tag = "Update" -> handle_update(st, child)
      [] child.tag = "Delete" -> handle_delete(st, child)
      [] OTHER -> st

RECURSIVE exec_children(_, _, _)
exec_children(st, children, i) ==
    IF st.err # NoErr \/ st.outOfPool \/ i > Len(children) THEN st
    ELSE exec_children(exec_child(st, children[i]), children, i + 1)

\* _update_layer_stats of transaction_service: COUNT(*) and the aggregate
\* bbox over every row of the layer.
tx_update_layer_stats(feats, lyrs, layer_id) ==
    [lyrs EXCEPT ![layer_id].feature_count = Cardinality(RowsOf(feats, layer_id)),
                 ![layer_id].bbox = AggBBox(feats, RowsOf(feats, layer_id))]

RECURSIVE tx_update_all_stats(_, _, _)
tx_update_all_stats(feats, lyrs, ids) ==
    IF ids = {} THEN lyrs
    ELSE LET id == CHOOSE x \in ids : TRUE
         IN tx_update_all_stats(feats, tx_update_layer_stats(feats, lyrs, id), ids \ {id})

\* A "with db:" that commits whatever happened inside the block.
WithDb_NoRollback(before, working, raised) == working

\* "with db:" (sqlite3.Connection as a context manager): leaving the block
\* on an exception rolls the session's changes back, leaving it normally
\* commits them.  before/working are [features, layers].
WithDb(before, working, raised) == IF raised THEN before ELSE working

Store(feats, lyrs) == [features |-> feats, layers |-> lyrs]

\* What a request handler hands back.  kind is "TransactionResponse",
\* "ExceptionReport", "raised" (an exception left the handler), or the
\* result kind of another handler.
\* result is the ImportResult of an ingest, NoImportResult otherwise.
NoImportResult ==
    [features_imported |-> 0, features_failed |-> 0, errors |-> <<>>, bbox |-> NoBBox]

FullResp(op, kind, code, cause, nIns, nUpd, nDel, touched, result) ==
    [op |-> op, kind |-> kind, code |-> code, cause |-> cause,
     totalInserted |-> nIns, totalUpdated |-> nUpd, totalDeleted |-> nDel,
     touched |-> touched, result |-> result]

Resp(op, kind, code, cause, nIns, nUpd, nDel, touched) ==
    FullResp(op, kind, code, cause, nIns, nUpd, nDel, touched, NoImportResult)

\* _exception_report
exception_report(code, cause) ==
    Resp("execute_transaction", "ExceptionReport", code, cause, 0, 0, 0, {})

\* _build_response
build_response(inserted, updated, deleted, touched) ==
    Resp("execute_transaction", "TransactionResponse", "", "",
         Len(inserted), updated, deleted, touched)

\* The session's view when the "with db:" block of execute_transaction is
\* left: the stats of the affected layers are refreshed after the loop,
\* which an exception raised in the loop skips.
tx_working(ran) ==
    IF ran.err # NoErr THEN Store(ran.features, ran.layers)
    ELSE Store(ran.features,
               tx_update_all_stats(ran.features, ran.layers, ran.affected))

\* execute_transaction around its loop over the children: before is the
\* store as the request found it, ran the transaction state when the loop
\* is left.
transaction_result(doc, before, ran) ==
    CASE doc.parse = "ParseError" ->
              [store |-> before, outOfPool |-> FALSE,
               resp |-> exception_report("InvalidParameterValue", "malformed_xml")]
         [] doc.parse = "OtherError" ->
              [store |-> before, outOfPool |-> FALSE,
               resp |-> Resp("execute_transaction", "raised", "", "xml_encoding",
                             0, 0, 0, {})]
         [] doc.parse = "ok" /\ doc.root # "Transaction" ->
              [store |-> before, outOfPool |-> FALSE,
               resp |-> exception_report("OperationNotSupported", "bad_root")]
         [] OTHER ->
              [store |-> WithDb(before, tx_working(ran), ran.err # NoErr),
               outOfPool |-> ran.outOfPool,
               resp |-> IF ran.err.type = "_WfsError"
                        THEN exception_report(ran.err.code, ran.err.cause)
                        ELSE IF ran.err # NoErr
                        THEN exception_report("NoApplicableCode", ran.err.cause)
                        ELSE build_response(ran.inserted, ran.updated,
                                            ran.deleted, ran.affected)]

\* execute_transaction on a request body doc = [parse, root, children]:
\* parse is what ET.fromstring does with the body ("ok", "ParseError", or
\* "OtherError" for the ValueError / LookupError it raises on a declared
\* encoding it cannot handle), root the root's local name.
\* Gives [store, resp, outOfPool].
execute_transaction(doc, feats, lyrs) ==
    transaction_result(doc, Store(feats, lyrs),
                       exec_children(TxBegin(feats, lyrs), doc.children, 1))

----------------------------------------------------------------------------
(* Attribute-schema inference (services/geometry_service.py) *)

\* _value_type: bool -> String, int -> Integer, float -> Real, anything
\* else (None included) -> String.
value_type(v) ==
    CASE v.t = "Boolean" -> "String"
      [] v.t = "Integer" -> "Integer"
      [] v.t = "Real" -> "Real"
      [] OTHER -> "String"

\* infer_schema over a sequence of property mappings.
infer_schema(sample_props) ==
    LET keys == UNION {DOMAIN sample_props[i] : i \in 1..Len(sample_props)}
        types(k) == {value_type(sample_props[i][k]) :
                        i \in {j \in 1..Len(sample_props) : k \in DOMAIN sample_props[j]}}
    IN [k \in keys |->
            IF types(k) = {"Integer"} THEN "Integer"
            ELSE IF types(k) \subseteq {"Integer", "Real"} THEN "Real"
            ELSE "String"]

----------------------------------------------------------------------------
(* Ingest pipeline (services/import_service.py)                            *)
(*                                                                         *)
(* A blob is [ext, fatal, feats]: its suffix, whether reading it ends in a *)
(* fatal format error, and what the per-feature loop meets: each feature   *)
(* is [ok, id, geom, props]; ok FALSE is a feature the loop rejects (null  *)
(* geometry, unparsable coordinates), id <<>> a feature without an id.     *)

ChunkSize == 1      \* default chunk_size of _batch_insert, scaled down from 500

FormatOf(ext) ==
    CASE ext \in {".geojson", ".json"} -> "geojson"
      [] ext = ".zip" -> "fiona"
      [] ext = ".gpkg" -> "fiona"
      [] ext = ".csv" -> "csv"
      [] OTHER -> "unsupported"

\* _make_record
make_record(layer_id, f, fid) ==
    Row(layer_id, fid, f.geom, f.props, bbox_from_geom(f.geom))

\* A message that names the first feature whatever feature was rejected.
FeatureError_Untagged(fmt, pos) == IF fmt = "csv" THEN <<"Row", 1>> ELSE <<"Feature", 0>>

\* The message of a feature the loop rejects: "Feature i: ..." with the
\* 0-based index, "Row i+1: ..." for CSV (pos is the 1-based position).
FeatureError(fmt, pos) ==
    IF fmt = "csv" THEN <<"Row", pos>> ELSE <<"Feature", pos - 1>>

RECURSIVE feature_loop(_, _, _, _, _, _)
\* The per-feature loop of _import_geojson / _import_via_fiona /
\* _import_csv from position i on; acc is [records, errors, sample_props,
\* outOfPool], pool the generated ids not yet handed out.  _import_csv
\* passes no fid to _make_record.
feature_loop(layer_id, fmt, feats, i, pool, acc) ==
    IF i > Len(feats) THEN acc
    ELSE LET f == feats[i]
             needUuid == fmt = "csv" \/ f.id = <<>>
             uuid == IF pool = {} THEN <<"u0">> ELSE CHOOSE u \in pool : TRUE
             fid == IF needUuid THEN uuid ELSE f.id
         IN IF ~f.ok
            THEN feature_loop(layer_id, fmt, feats, i + 1, pool,
                     [acc EXCEPT !.errors = Append(acc.errors, FeatureError(fmt, i))])
            ELSE IF needUuid /\ pool = {}
            THEN [acc EXCEPT !.outOfPool = TRUE]
            ELSE feature_loop(layer_id, fmt, feats, i + 1,
                     IF needUuid THEN pool \ {uuid} ELSE pool,
                     [acc EXCEPT !.records = Append(acc.records, make_record(layer_id, f, fid)),
                                 !.sample_props = Append(acc.sample_props, f.props)])

RECURSIVE insert_or_ignore(_, _, _)
\* executemany of INSERT OR IGNORE over chunk from position i on: a row
\* whose (layer_id, fid) is taken is skipped.
insert_or_ignore(feats, chunk, i) ==
    IF i > Len(chunk) THEN feats
    ELSE insert_or_ignore(
             IF UniqueOk(feats, chunk[i].layer_id, chunk[i].fid)
             THEN Append(feats, chunk[i]) ELSE feats,
             chunk, i + 1)

NumChunks(n, chunk_size) == (n + chunk_size - 1) \div chunk_size

\* records[i : i + chunk_size] of chunk k (numbered from 1)
ChunkOf(records, chunk_size, k) ==
    SubSeq(records, (k - 1) * chunk_size + 1,
           IF k * chunk_size < Len(records) THEN k * chunk_size ELSE Len(records))

RECURSIVE batch_insert(_, _, _, _, _)
\* _batch_insert from chunk k on (chunks numbered from 1 here, from 0 in
\* the messages).  fails is the set of chunks whose write raises.
\* s is [committed, working, imported, failed, errors]: "with db:" commits
\* the session's pending changes with a chunk that succeeds and rolls them
\* back with one that fails.
batch_insert(s, records, chunk_size, fails, k) ==
    IF k > NumChunks(Len(records), chunk_size) THEN s
    ELSE LET chunk == ChunkOf(records, chunk_size, k)
             written == [s.working EXCEPT
                            !.features = insert_or_ignore(s.working.features, chunk, 1)]
             after == WithDb(s.committed, written, k \in fails)
         IN batch_insert(
                IF k \in fails
                THEN [s EXCEPT !.committed = after, !.working = after,
                               !.failed = s.failed + Len(chunk),
                               !.errors = Append(s.errors, <<"Batch insert error", k - 1>>)]
                ELSE [s EXCEPT !.committed = after, !.working = after,
                               !.imported = s.imported + Len(chunk)],
                records, chunk_size, fails, k + 1)

\* _compute_bbox
compute_bbox(records) == AggBBox(records, 1..Len(records))

\* The rows the SELECT of import_service._update_layer_stats aggregates:
\* WHERE layer_id = ? AND geometry IS NOT NULL.
StatRows(feats, layer_id) ==
    {i \in RowsOf(feats, layer_id) : feats[i].geometry # NullWkb}

\* The geom_type _update_layer_stats may read: the bare "geometry" column
\* of its aggregate query comes from one of the aggregated rows, which one
\* is SQLite's choice; "" when there is no row.
StatGeomTypes(feats, layer_id) ==
    IF StatRows(feats, layer_id) = {} THEN {""}
    ELSE {wkb_to_geom(feats[i].geometry).type : i \in StatRows(feats, layer_id)}

\* An _update_layer_stats that writes the geometry class it read whatever
\* the layer held.
import_update_layer_stats_Overwrite(store, layer_id, geom_type) ==
    [store EXCEPT !.layers[layer_id] =
        [store.layers[layer_id] EXCEPT
            !.feature_count = Cardinality(StatRows(store.features, layer_id)),
            !.bbox = AggBBox(store.features, StatRows(store.features, layer_id)),
            !.geometry_type = geom_type]]

\* _update_layer_stats of import_service, reading geom_type.
import_update_layer_stats(store, layer_id, geom_type) ==
    LET rows == StatRows(store.features, layer_id)
        old == store.layers[layer_id]
    IN [store EXCEPT !.layers[layer_id] =
            [old EXCEPT !.feature_count = Cardinality(rows),
                        !.bbox = AggBBox(store.features, rows),
                        !.geometry_type = IF old.geometry_type = ""
                                          THEN geom_type ELSE old.geometry_type]]

\* features_failed of the ImportResult: _import_geojson adds the features
\* the loop rejected, _import_via_fiona and _import_csv do not.
features_failed(fmt, failed, nLoopErrors) ==
    IF fmt = "geojson" THEN failed + nLoopErrors ELSE failed

ImportResp(kind, cause, result) ==
    FullResp("import_file", kind, "", cause, 0, 0, 0, {}, result)

\* _update_attribute_schema and the ImportResult, after the loop (loop) and
\* _batch_insert (ins).  infer_schema iterates props.items() and raises
\* AttributeError on a sampled "properties" that is no mapping; a non-empty
\* schema is written and committed.
\* Gives [raised, cause, committed, working, result, outOfPool]: committed
\* is the store as committed so far, working the session's view of it.
import_result(fmt, layer_id, loop, ins) ==
    LET schema == infer_schema([i \in 1..Len(loop.sample_props) |->
                                    loop.sample_props[i].items])
        withSchema == [ins.working EXCEPT !.layers[layer_id].attribute_schema = schema]
    IN IF \E i \in 1..Len(loop.sample_props) : loop.sample_props[i].kind # "object"
       THEN [raised |-> TRUE, cause |-> "properties_not_object",
             committed |-> ins.committed, working |-> ins.working,
             result |-> NoImportResult, outOfPool |-> loop.outOfPool]
       ELSE [raised |-> FALSE, cause |-> "",
             committed |-> IF DOMAIN schema # {} THEN withSchema ELSE ins.committed,
             working |-> IF DOMAIN schema # {} THEN withSchema ELSE ins.working,
             result |-> [features_imported |-> ins.imported,
                         features_failed |->
                             features_failed(fmt, ins.failed, Len(loop.errors)),
                         errors |-> loop.errors \o ins.errors,
                         bbox |-> compute_bbox(loop.records)],
             outOfPool |-> loop.outOfPool]

\* _import_geojson / _import_via_fiona / _import_csv after the per-feature
\* loop: _batch_insert, then the rest.
import_records(fmt, layer_id, fails, before, session, loop) ==
    import_result(fmt, layer_id, loop,
                  batch_insert([committed |-> before, working |-> session,
                                imported |-> 0, failed |-> 0, errors |-> <<>>],
                               loop.records, ChunkSize, fails, 1))

\* The dispatch by suffix of import_file; session is the session's view
\* after the DELETE of replace mode, which is not yet committed.
import_format(fmt, blob, layer_id, fails, before, session) ==
    CASE fmt = "unsupported" ->
           [raised |-> TRUE, cause |-> "unsupported_format", committed |-> before,
            working |-> session, result |-> NoImportResult, outOfPool |-> FALSE]
      [] blob.fatal ->
           [raised |-> TRUE, cause |-> "fatal_format_error", committed |-> before,
            working |-> session, result |-> NoImportResult, outOfPool |-> FALSE]
      [] fmt = "csv" /\ blob.feats = <<>> ->
           [raised |-> FALSE, cause |-> "", committed |-> before, working |-> session,
            result |-> [NoImportResult EXCEPT !.errors = <<<<"CSV has no data rows", 0>>>>],
            outOfPool |-> FALSE]
      [] OTHER ->
           import_records(fmt, layer_id, fails, before, session,
               feature_loop(layer_id, fmt, blob.feats, 1, FreshIds(before.features),
                   [records |-> <<>>, errors |-> <<>>, sample_props |-> <<>>,
                    outOfPool |-> FALSE]))

\* import_file up to (not including) its closing _update_layer_stats.
import_dispatch(blob, layer_id, replace_existing, fails, feats, lyrs) ==
    import_format(FormatOf(blob.ext), blob, layer_id, fails, Store(feats, lyrs),
        \* DELETE FROM features WHERE layer_id = ?  (not yet committed)
        IF replace_existing
        THEN Store(SelectSeq(feats, LAMBDA r : r.layer_id # layer_id), lyrs)
        ELSE Store(feats, lyrs))

\* import_file: when it raises, what the session had not committed is
\* lost with the session; otherwise _update_layer_stats runs and commits.
\* Gives [store, resp].
import_file(d, layer_id, geom_type) ==
    IF d.raised
    THEN [store |-> d.committed, resp |-> ImportResp("raised", d.cause, NoImportResult)]
    ELSE [store |-> WithDb(d.committed,
                           import_update_layer_stats(d.working, layer_id, geom_type), FALSE),
          resp |-> ImportResp("ImportResult", "", d.result)]

----------------------------------------------------------------------------
(* GetFeature (routers/wfs.py, services/wfs_service.py)                    *)
(*                                                                         *)
(* A KVP text is a sequence of one-character strings.  An optional value   *)
(* is <<>> (None / SQL NULL) or <<v>>.                                     *)

None == <<>>
Some(v) == <<v>>

MaxFeatures == 1    \* settings.max_features_per_request, scaled down from 10000

RECURSIVE strip_left(_)
strip_left(t) == IF t # <<>> /\ Head(t) = " " THEN strip_left(Tail(t)) ELSE t

RECURSIVE strip_right(_)
strip_right(t) ==
    IF t # <<>> /\ t[Len(t)] = " " THEN strip_right(SubSeq(t, 1, Len(t) - 1)) ELSE t

\* str.strip
strip(t) == strip_right(strip_left(t))

\* float(text) on the texts of the model (runs of digits, a leading "-"):
\* [ok, v]; not ok is ValueError.
float_of_unsigned(t) ==
    IF t # <<>> /\ \A i \in 1..Len(t) : t[i] \in Range(Digits)
    THEN [ok |-> TRUE, v |-> DecimalValue(t)]
    ELSE [ok |-> FALSE, v |-> 0]

float_of_stripped(t) ==
    IF t # <<>> /\ Head(t) = "-"
    THEN [float_of_unsigned(Tail(t)) EXCEPT !.v = 0 - @]
    ELSE float_of_unsigned(t)

float_of(t) == float_of_stripped(strip(t))

\* _parse_bbox once the four numbers are parsed: the swap decision.
\* [status, bbox]; status 400 is the HTTPException.
bbox_values(parts, f0, f1, f2, f3) ==
    IF ~(f0.ok /\ f1.ok /\ f2.ok /\ f3.ok)
    THEN [status |-> 400, bbox |-> None]
    ELSE IF /\ Len(parts) >= 5
            /\ Contains(strip(parts[5]), <<"4", "3", "2", "6">>)
            /\ \/ Contains(strip(parts[5]), <<"E", "P", "S", "G">>)
               \/ ~Contains(strip(parts[5]), <<"C", "R", "S", "8", "4">>)
         THEN [status |-> 200, bbox |-> <<f1.v, f0.v, f3.v, f2.v>>]
         ELSE [status |-> 200, bbox |-> <<f0.v, f1.v, f2.v, f3.v>>]

\* _parse_bbox on bbox_str.split(","), the sequence parts of texts.
parse_bbox(parts) ==
    IF Len(parts) < 4 THEN [status |-> 400, bbox |-> None]
    ELSE bbox_values(parts, float_of(parts[1]), float_of(parts[2]),
                     float_of(parts[3]), float_of(parts[4]))

\* SQL comparison and connectives over NULL: "T", "F" or "N" (unknown).
SqlLt(a, b) == IF a = None \/ b = None THEN "N" ELSE IF a[1] < b[1] THEN "T" ELSE "F"
SqlGt(a, b) == IF a = None \/ b = None THEN "N" ELSE IF a[1] > b[1] THEN "T" ELSE "F"
SqlOr(x, y) == IF x = "T" \/ y = "T" THEN "T" ELSE IF x = "N" \/ y = "N" THEN "N" ELSE "F"
SqlNot(x) == IF x = "T" THEN "F" ELSE IF x = "F" THEN "T" ELSE "N"

\* The bbox columns of a row: 1 bbox_minx, 2 bbox_miny, 3 bbox_maxx, 4 bbox_maxy.
BBoxCol(row, k) == IF row.bbox = NoBBox THEN None ELSE Some(row.bbox[k])

\* The parameters bound in the tuple order of bbox instead.
bbox_params_TupleOrder(bbox) == <<Some(bbox[1]), Some(bbox[2]), Some(bbox[3]), Some(bbox[4])>>

\* params.extend([minx, maxx, miny, maxy]) for bbox = (minx, miny, maxx, maxy)
bbox_params(bbox) == <<Some(bbox[1]), Some(bbox[3]), Some(bbox[2]), Some(bbox[4])>>

\* NOT (bbox_maxx < ? OR bbox_minx > ? OR bbox_maxy < ? OR bbox_miny > ?)
\* with the placeholders bound to params in order.
bbox_clause(row, params) ==
    SqlNot(SqlOr(SqlOr(SqlOr(SqlLt(BBoxCol(row, 3), params[1]),
                             SqlGt(BBoxCol(row, 1), params[2])),
                       SqlLt(BBoxCol(row, 4), params[3])),
                 SqlGt(BBoxCol(row, 2), params[4])))

\* base_sql: FROM features WHERE layer_id = ? [AND NOT (...)]; a row is
\* selected when the WHERE clause is true.  "if bbox:" holds for every
\* 4-tuple.
base_sql(feats, layer_id, bbox) ==
    SelectSeq(feats, LAMBDA r :
        /\ r.layer_id = layer_id
        /\ bbox # None => bbox_clause(r, bbox_params(bbox)) = "T")

\* ORDER BY id LIMIT ? OFFSET ? over the selected rows: SQLite takes a
\* negative LIMIT as no limit and a negative OFFSET as 0.
limit_offset(rows, limit, offset) ==
    SubSeq(rows,
           (IF offset < 0 THEN 0 ELSE offset) + 1,
           IF limit < 0 \/ (IF offset < 0 THEN 0 ELSE offset) + limit > Len(rows)
           THEN Len(rows)
           ELSE (IF offset < 0 THEN 0 ELSE offset) + limit)

\* limit = min(count if count is not None else max_features, max_features)
page_limit(count, max_features) ==
    Min({IF count # None THEN count[1] ELSE max_features, max_features})

\* A page query that leaves the bbox clause out of its WHERE.
select_page_Unfiltered(feats, layer_id, bbox, count, startindex, max_features) ==
    limit_offset(base_sql(feats, layer_id, None), page_limit(count, max_features),
                 startindex)

\* The page query of _query_features.
select_page(feats, layer_id, bbox, count, startindex, max_features) ==
    limit_offset(base_sql(feats, layer_id, bbox), page_limit(count, max_features),
                 startindex)

\* _query_features: (rows, total)
query_features(feats, layer_id, bbox, count, startindex, max_features) ==
    [total |-> Len(base_sql(feats, layer_id, bbox)),
     rows |-> select_page(feats, layer_id, bbox, count, startindex, max_features)]

\* What GetFeature answers.  request records the parameters as sent.
FeatureResp(kind, numberMatched, rows, request) ==
    [op |-> "GetFeature", kind |-> kind, numberMatched |-> numberMatched,
     numberReturned |-> Len(rows),
     fids |-> [i \in 1..Len(rows) |-> rows[i].fid], request |-> request]

\* build_get_feature_geojson / build_get_feature_gml around _query_features.
\* The GML builder iterates feat.properties.items(), which raises on a
\* stored "properties" that is no mapping.
feature_collection(q, fmt, request) ==
    IF fmt = "gml" /\ \E i \in 1..Len(q.rows) : q.rows[i].properties.kind # "object"
    THEN FeatureResp("raised", 0, <<>>, request)
    ELSE FeatureResp("FeatureCollection", q.total, q.rows, request)

build_get_feature(typenames, feats, lyrs, bbox, count, startindex, max_features, fmt, request) ==
    IF LayerIdsNamed(lyrs, typenames) = {}
    THEN FeatureResp("FeatureCollection", 0, <<>>, request)
    ELSE feature_collection(
             query_features(feats, CHOOSE id \in LayerIdsNamed(lyrs, typenames) : TRUE,
                            bbox, count, startindex, max_features),
             fmt, request)

\* Python's "a or b" on optional integers and on integers.
OrOpt(a, b) == IF a # None /\ a # Some(0) THEN a ELSE b
OrInt(a, b) == IF a # 0 THEN a ELSE b

\* The GETFEATURE branch of wfs_endpoint after _parse_bbox (parsed; status
\* 200 and bbox None when no BBOX was sent).
get_feature_parsed(rq, parsed, feats, lyrs) ==
    IF parsed.status # 200 THEN FeatureResp("400", 0, <<>>, rq)
    ELSE build_get_feature(rq.typenames, feats, lyrs, parsed.bbox,
                           OrOpt(rq.COUNT, rq.count),
                           OrInt(rq.STARTINDEX, rq.startindex),
                           MaxFeatures, rq.fmt, rq)

\* wfs_endpoint with REQUEST=GetFeature; rq is [typenames, BBOX, COUNT,
\* count, STARTINDEX, startindex, fmt], BBOX the text split at commas
\* (<<>> when absent or empty).
get_feature(rq, feats, lyrs) ==
    IF rq.typenames = "" THEN FeatureResp("400", 0, <<>>, rq)
    ELSE get_feature_parsed(rq,
             IF rq.BBOX = <<>> THEN [status |-> 200, bbox |-> None]
             ELSE parse_bbox(rq.BBOX),
             feats, lyrs)

----------------------------------------------------------------------------
(* Request bodies of the model *)

GmlPt == Elem("Point", Srs4326, <<<<2, 1>>>>, TRUE, <<>>)
GmlLn == Elem("LineString", <<>>, <<<<0, 0>>, <<2, 1>>>>, TRUE, <<>>)
GmlEmpty == Elem("MultiGeometry", Srs4326, <<>>, TRUE, <<>>)
GmlBad == Elem("Point", Srs4326, <<>>, FALSE, <<>>)

NameIs(v) == [k \in {"name"} |-> v]

FeatureElem(tag, gmlid, geom, props) ==
    [tag |-> tag, gmlid |-> gmlid, geom |-> geom, props |-> props]

InsertOf(fes) ==
    [tag |-> "Insert", features |-> fes, typeName |-> "",
     prop_updates |-> EmptyMap, geom |-> NoGml, rids |-> <<>>]
UpdateOf(typeName, prop_updates, geom, rids) ==
    [tag |-> "Update", features |-> <<>>, typeName |-> typeName,
     prop_updates |-> prop_updates, geom |-> geom, rids |-> rids]
DeleteOf(typeName, rids) ==
    [tag |-> "Delete", features |-> <<>>, typeName |-> typeName,
     prop_updates |-> EmptyMap, geom |-> NoGml, rids |-> rids]
NativeChild ==
    [tag |-> "Native", features |-> <<>>, typeName |-> "",
     prop_updates |-> EmptyMap, geom |-> NoGml, rids |-> <<>>]

FeatureElems ==
    {FeatureElem("roads", <<"a">>, g, EmptyMap) : g \in {NoGml, GmlPt, GmlEmpty, GmlBad}}
    \cup {FeatureElem("roads", <<>>, GmlPt, EmptyMap),
          FeatureElem("roads", <<"roads", "a">>, GmlLn, EmptyMap),
          FeatureElem("parks", <<"a">>, GmlPt, EmptyMap),
          FeatureElem("unknown", <<"a">>, GmlPt, EmptyMap)}

Inserts == {InsertOf(<<fe>>) : fe \in FeatureElems}

Updates ==
    {UpdateOf("roads", NameIs(StrVal("w")), NoGml, <<<<"a">>>>),
     UpdateOf("roads", EmptyMap, GmlLn, <<<<"roads", "a">>>>),
     UpdateOf("roads", NameIs(StrVal("w")), GmlPt, <<<<"a">>, <<"u1">>>>),
     UpdateOf("roads", EmptyMap, GmlBad, <<<<"a">>>>),
     UpdateOf("roads", NameIs(StrVal("w")), NoGml, <<>>),
     UpdateOf("unknown", NameIs(StrVal("w")), NoGml, <<<<"a">>>>)}

Deletes ==
    {DeleteOf("roads", <<<<"a">>>>),
     DeleteOf("roads", <<<<"roads", "a">>, <<"u1">>>>),
     DeleteOf("roads", <<>>),
     DeleteOf("parks", <<<<"a">>>>),
     DeleteOf("unknown", <<<<"a">>>>)}

Children == Inserts \cup Updates \cup Deletes \cup {NativeChild}

\* The children that the multi-child transactions of the model combine.
CoreChildren ==
    {InsertOf(<<FeatureElem("roads", <<"a">>, GmlPt, EmptyMap)>>),
     InsertOf(<<FeatureElem("parks", <<"a">>, GmlPt, EmptyMap)>>),
     InsertOf(<<FeatureElem("unknown", <<"a">>, GmlPt, EmptyMap)>>),
     UpdateOf("roads", NameIs(StrVal("w")), NoGml, <<<<"a">>>>),
     DeleteOf("roads", <<<<"a">>>>)}

Docs ==
    {[parse |-> "ok", root |-> "Transaction", children |-> <<c>>] : c \in Children}
    \cup {[parse |-> "ok", root |-> "Transaction", children |-> cs] :
            cs \in SeqsUpTo(CoreChildren, MaxOps)}
    \cup {[parse |-> "ParseError", root |-> "", children |-> <<>>],
          [parse |-> "OtherError", root |-> "", children |-> <<>>],
          [parse |-> "ok", root |-> "GetFeature",
           children |-> <<InsertOf(<<FeatureElem("roads", <<"a">>, GmlPt, EmptyMap)>>)>>]}

BadFeature == [ok |-> FALSE, id |-> <<>>, geom |-> NoGeom, props |-> Props(EmptyMap)]
GoodFeature(id, geom, props) == [ok |-> TRUE, id |-> id, geom |-> geom, props |-> props]

GeoFeats ==
    {BadFeature,
     GoodFeature(<<"a">>, Pt, Props(NameIs(IntVal("3")))),
     GoodFeature(<<>>, Ln, Props(NameIs(IntVal("3"))))}

\* A GeoJSON feature whose "properties" member is not a mapping.
ArrayFeature == GoodFeature(<<"a">>, Ln, ArrayProps)

CsvRows == {BadFeature, GoodFeature(<<>>, Pt, Props(NameIs(IntVal("3"))))}

FionaFeats == {BadFeature, GoodFeature(<<"a">>, Ln, Props(EmptyMap))}

Blob(ext, fatal, feats) == [ext |-> ext, fatal |-> fatal, feats |-> feats]

Blobs ==
    {Blob(".geojson", FALSE, fs) : fs \in SeqsUpTo(GeoFeats, MaxRecords)}
    \cup {Blob(".csv", FALSE, fs) : fs \in SeqsUpTo(CsvRows, 1)}
    \cup {Blob(".gpkg", FALSE, fs) : fs \in SeqsUpTo(FionaFeats, 1)}
    \cup {Blob(".json", FALSE, <<ArrayFeature>>),
          Blob(".geojson", TRUE, <<>>), Blob(".txt", FALSE, <<>>)}

\* The ingest requests of the model address the layer named "roads".
IngestTargets == LayerIdsNamed(layers, "roads")

\* The records a blob yields, which bounds the chunks that can fail.
NumRecords(blob) ==
    IF FormatOf(blob.ext) = "unsupported" \/ blob.fatal THEN 0
    ELSE Cardinality({i \in 1..Len(blob.feats) : blob.feats[i].ok})

\* Texts of the KVP requests.
T1 == <<"1">>
T2 == <<"2">>
T3 == <<"3">>
T4 == <<"4">>
T0 == <<"0">>

\* Fifth tokens of a BBOX, each with the CRS it designates: EPSG:4326 in
\* its short, URN, padded and lower-case spellings, CRS84, and other CRSs,
\* one of them with a code that has the digits 4326 in it.
CrsTokens ==
    {[text |-> TEpsg \o TColon \o T4326, designates |-> "EPSG:4326"],
     [text |-> TUrn \o TEpsg \o TColon \o TColon \o T4326, designates |-> "EPSG:4326"],
     [text |-> <<" ">> \o TEpsg \o TColon \o T4326 \o <<" ">>, designates |-> "EPSG:4326"],
     [text |-> <<"e", "p", "s", "g", ":">> \o T4326, designates |-> "EPSG:4326"],
     [text |-> TUrn \o TCrs84, designates |-> "CRS84"],
     [text |-> <<"C", "R", "S", ":", "8", "4">>, designates |-> "CRS84"],
     [text |-> TEpsg \o TColon \o T3857, designates |-> "other"],
     [text |-> TEpsg \o TColon \o T4326 \o T0, designates |-> "other"],
     [text |-> <<>>, designates |-> "other"]}

\* BBOX parameters as sent: parts is the text split at commas, crs what
\* the fifth token designates ("none" without one).
BBoxOf(vals, crs) == [parts |-> vals \o <<crs.text>>, crs |-> crs.designates]
PlainBBox(vals) == [parts |-> vals, crs |-> "none"]
NoBBoxParam == [parts |-> <<>>, crs |-> "none"]

\* GetFeature requests of the model.
QueryBBoxes ==
    {NoBBoxParam,
     PlainBBox(<<T0, T0, T4, T2>>),
     PlainBBox(<<T0, T3, T2, T4>>),
     PlainBBox(<<T3, T0, T4, T2>>),
     BBoxOf(<<T3, T0, T4, T2>>, [text |-> TEpsg \o TColon \o T4326,
                                 designates |-> "EPSG:4326"]),
     PlainBBox(<<T0, T0, <<"x">>, T2>>)}

Requests ==
    {[typenames |-> t, BBOX |-> b.parts, COUNT |-> C, count |-> c,
      STARTINDEX |-> S, startindex |-> 0, fmt |-> f] :
        t \in {"roads", "unknown"}, b \in QueryBBoxes,
        C \in {None, Some(-1), Some(0), Some(1), Some(3)}, c \in {None, Some(1)},
        S \in {-1, 0, 1}, f \in {"gml", "json"}}
    \cup {[typenames |-> "", BBOX |-> <<>>, COUNT |-> None, count |-> None,
           STARTINDEX |-> 0, startindex |-> 1, fmt |-> "gml"],
          [typenames |-> "roads", BBOX |-> <<>>, COUNT |-> None, count |-> Some(3),
           STARTINDEX |-> 0, startindex |-> 1, fmt |-> "json"]}

\* A point away from the others, as GML in EPSG:3857: reprojected on its
\* way into the store.
GmlFar == Elem("Point", SrsUrn(3857), <<<<1, 1>>>>, TRUE, <<>>)

\* The transactions that fill the store in GetFeatureSpec.
QueryDocs ==
    {[parse |-> "ok", root |-> "Transaction",
      children |-> <<InsertOf(<<FeatureElem("roads", id, g, EmptyMap)>>)>>] :
        id \in {<<"a">>, <<"b">>}, g \in {NoGml, GmlPt, GmlLn, GmlFar}}
    \cup {[parse |-> "ok", root |-> "Transaction",
           children |-> <<DeleteOf("roads", <<<<"a">>>>)>>]}

\* BBOX texts for _parse_bbox alone.
BBoxValues ==
    {<<v0, v1, v2, v3>> : v0 \in {T1, <<"x">>}, v1 \in {T2, <<" ", "2">>},
                          v2 \in {T3, <<"-", "3">>}, v3 \in {T4, <<>>}}

BBoxTexts ==
    {PlainBBox(SubSeq(v, 1, n)) : v \in BBoxValues, n \in 0..4}
    \cup {BBoxOf(v, c) : v \in BBoxValues, c \in CrsTokens}
    \cup {[parts |-> v \o <<c.text, T1>>, crs |-> c.designates] :
            v \in BBoxValues, c \in CrsTokens}

\* Geometries for the GML codec alone: the seven classes, with an empty
\* LineString, an empty MultiPoint and a nested collection among them.
Pt2 == Geom("Point", <<<<3, 0>>>>, <<>>)
Ring == Geom("LinearRing", <<<<0, 0>>, <<4, 0>>, <<4, 3>>, <<0, 0>>>>, <<>>)
Hole == Geom("LinearRing", <<<<1, 0>>, <<3, 0>>, <<3, 1>>, <<1, 0>>>>, <<>>)
Poly == Geom("Polygon", <<>>, <<Ring>>)

CodecGeoms ==
    {Pt, Pt2, Ln,
     Geom("LineString", <<>>, <<>>),
     Geom("LineString", <<<<0, 1>>, <<2, 1>>, <<2, 3>>>>, <<>>),
     Poly,
     Geom("Polygon", <<>>, <<Ring, Hole>>),
     Geom("MultiPoint", <<>>, <<Pt, Pt2>>),
     Geom("MultiPoint", <<>>, <<>>),
     Geom("MultiLineString", <<>>, <<Ln>>),
     Geom("MultiPolygon", <<>>, <<Poly>>),
     Geom("GeometryCollection", <<>>, <<Pt, Ln>>),
     Geom("GeometryCollection", <<>>, <<Geom("GeometryCollection", <<>>, <<Pt2>>), Poly>>),
     EmptyGeom}

CodecSrids == {4326, 3857, 28992}

\* srsName attributes, each with the CRS it designates ("absent" for no
\* attribute).
SrsNames ==
    {[text |-> Srs4326, designates |-> "EPSG:4326"],
     [text |-> TEpsg \o TColon \o T4326, designates |-> "EPSG:4326"],
     [text |-> <<>>, designates |-> "absent"],
     [text |-> TUrn \o TCrs84, designates |-> "CRS84"],
     [text |-> SrsUrn(3857), designates |-> "other"],
     [text |-> TEpsg \o TColon \o T3857, designates |-> "other"]}

\* Elements as a client writes them, under each srsName.
CodecElems ==
    {[elem |-> Elem("Point", n.text, <<<<1, 2>>>>, TRUE, <<>>), designates |-> n.designates] :
        n \in SrsNames}
    \cup {[elem |-> Elem("MultiCurve", n.text, <<>>, TRUE,
                         <<Elem("LineString", <<>>, <<<<0, 1>>, <<2, 3>>>>, TRUE, <<>>)>>),
           designates |-> n.designates] : n \in SrsNames}
    \cup {[elem |-> Elem("Polygon", n.text, <<>>, FALSE, <<>>), designates |-> n.designates] :
            n \in SrsNames}

\* Property mappings for infer_schema alone: field "n" absent or holding a
\* value of each JSON type, with and without a second field.
SampleValues == {NullVal, IntVal("3"), RealVal("1.5"), BoolVal("true"), StrVal("w")}

SampleMaps ==
    {EmptyMap}
    \cup {[k \in {"n"} |-> v] : v \in SampleValues}
    \cup {[k \in {"n", "m"} |-> IF k = "n" THEN v ELSE IntVal("3")] : v \in SampleValues}

MaxSample == 2

----------------------------------------------------------------------------
(* Requests in flight *)

Sessions == {1, 2}

\* A handler: the request it serves (op, arg), its position pc, what it
\* has read so far (local) and, at pc "done", its reply (out).
Handler(op, pc, arg, local, out) ==
    [op |-> op, pc |-> pc, arg |-> arg, local |-> local, out |-> out]

\* A handler that awaits a request.
IdleSession == Handler("", "idle", <<>>, <<>>, <<>>)

\* The temp path of an upload: layer_{layer_id}_{filename}.
tmp_path(layer_id, filename) == <<"layer", layer_id, filename>>

NoUploads == [p \in {} |-> <<>>]

\* No symbology rule is stored, no handler is at work, the uploads
\* directory is empty.
Quiescent ==
    /\ rules = <<>>
    /\ sessions = [s \in Sessions |-> IdleSession]
    /\ uploads = NoUploads

----------------------------------------------------------------------------
(* Admin layer CRUD (routers/admin_layers.py) *)

AdminResp(op, kind) == Resp(op, kind, "", "", 0, 0, 0, {})

NoResp == AdminResp("", "")

\* create_layer: INSERT INTO layers; a taken name is IntegrityError -> 409.
CreateLayer(name) ==
    /\ resp = NoResp
    /\ nextLayerId <= MaxLayers
    /\ IF LayerIdsNamed(layers, name) # {}
       THEN /\ resp' = AdminResp("create_layer", "409")
            /\ UNCHANGED <<layers, features, nextLayerId, inflight>>
       ELSE /\ layers' = [id \in (DOMAIN layers) \cup {nextLayerId} |->
                            IF id = nextLayerId THEN NewLayer(id, name) ELSE layers[id]]
            /\ nextLayerId' = nextLayerId + 1
            /\ resp' = AdminResp("create_layer", "201")
            /\ UNCHANGED <<features, inflight>>

\* delete_layer: DELETE FROM layers WHERE id = ?, with foreign_keys=ON the
\* features and the symbology rules of the layer go with it (ON DELETE
\* CASCADE).
DeleteLayer(id) ==
    /\ resp = NoResp
    /\ id \in DOMAIN layers
    /\ layers' = [x \in (DOMAIN layers) \ {id} |-> layers[x]]
    /\ features' = SelectSeq(features, LAMBDA r : r.layer_id # id)
    /\ rules' = SelectSeq(rules, LAMBDA r : r.layer_id # id)
    /\ resp' = AdminResp("delete_layer", "204")
    /\ UNCHANGED <<nextLayerId, sessions, uploads>>

----------------------------------------------------------------------------
(* POST /wfs with a transaction body *)

\* The handler returns r = [store, resp, ...]: the store is what it has
\* committed, the response goes out.
Return(r) ==
    /\ Len(r.store.features) <= MaxRows
    /\ features' = r.store.features
    /\ layers' = r.store.layers
    /\ resp' = r.resp

TransactionDone(r) == ~r.outOfPool /\ Return(r)

ExecuteTransaction(doc) ==
    /\ resp = NoResp
    /\ TransactionDone(execute_transaction(doc, features, layers))
    /\ UNCHANGED <<nextLayerId, inflight>>

----------------------------------------------------------------------------
(* POST /api/admin/layers/{layer_id}/import *)

\* import_file from its closing _update_layer_stats on; geom_type is what
\* that reads.
ImportDispatched(d, layer_id) ==
    /\ ~d.outOfPool
    /\ \E geom_type \in StatGeomTypes(d.working.features, layer_id) :
         Return(import_file(d, layer_id, geom_type))

\* import_layer_file calls import_file for a layer that exists.  fails is
\* the set of chunks whose write the store refuses.
ImportFile(layer_id, blob, replace_existing) ==
    /\ resp = NoResp
    /\ layer_id \in DOMAIN layers
    /\ \E fails \in SUBSET (1..NumChunks(NumRecords(blob), ChunkSize)) :
         ImportDispatched(import_dispatch(blob, layer_id, replace_existing, fails,
                                          features, layers),
                          layer_id)
    /\ UNCHANGED <<nextLayerId, inflight>>

----------------------------------------------------------------------------
(* GET /wfs?REQUEST=GetFeature *)

GetFeature(rq) ==
    /\ resp = NoResp
    /\ resp' = get_feature(rq, features, layers)
    /\ UNCHANGED <<layers, features, nextLayerId, inflight>>

----------------------------------------------------------------------------

\* The response is sent; the server is ready for the next request.
Deliver ==
    /\ resp # NoResp
    /\ resp' = NoResp
    /\ UNCHANGED <<layers, features, nextLayerId, inflight>>

Init ==
    /\ layers = [id \in {} |-> NewLayer(0, "")]
    /\ features = <<>>
    /\ nextLayerId = 1
    /\ Quiescent
    /\ resp = NoResp

Next ==
    \/ \E name \in LayerNames : CreateLayer(name)
    \/ \E id \in 1..MaxLayers : DeleteLayer(id)
    \/ \E doc \in Docs : ExecuteTransaction(doc)
    \/ \E layer_id \in IngestTargets, blob \in Blobs, replace_existing \in BOOLEAN :
          ImportFile(layer_id, blob, replace_existing)
    \/ Deliver

Spec == Init /\ [][Next]_vars

\* The query path: a store filled by transactions, queried by GetFeature.
GetFeatureNext ==
    \/ CreateLayer("roads")
    \/ \E doc \in QueryDocs : ExecuteTransaction(doc)
    \/ \E rq \in Requests : GetFeature(rq)
    \/ Deliver

GetFeatureSpec == Init /\ [][GetFeatureNext]_vars

\* The GML codec alone: a stored geometry is emitted for an SRID and the
\* element parsed back; an element a client wrote is parsed.
GmlCall(kind, geom, srid, elem, designates) ==
    [op |-> "gml", kind |-> kind, geom |-> geom, srid |-> srid, elem |-> elem,
     designates |-> designates, parsed |-> [ok |-> FALSE, geom |-> NoGeom, srid |-> 0]]

GmlInit ==
    /\ layers = [id \in {} |-> NewLayer(0, "")]
    /\ features = <<>>
    /\ nextLayerId = 1
    /\ Quiescent
    /\ resp \in {GmlCall("geometry", g, srid, NoGml, "emitted") :
                    g \in CodecGeoms, srid \in CodecSrids}
               \cup {GmlCall("element", NoGeom, 0, e.elem, e.designates) : e \in CodecElems}

EmitGml ==
    /\ resp.op = "gml"
    /\ resp.kind = "geometry"
    /\ resp' = [resp EXCEPT !.kind = "element",
                            !.elem = wkb_to_gml32(geom_to_wkb(resp.geom), resp.srid)]
    /\ UNCHANGED <<layers, features, nextLayerId, inflight>>

ParseGml ==
    /\ resp.op = "gml"
    /\ resp.kind = "element"
    /\ resp' = [resp EXCEPT !.kind = "parsed", !.parsed = gml32_to_geom(resp.elem)]
    /\ UNCHANGED <<layers, features, nextLayerId, inflight>>

GmlSpec == GmlInit /\ [][EmitGml \/ ParseGml]_vars

\* infer_schema alone: a sample of property mappings arrives, the function
\* is applied to it.
InferSchemaInit ==
    /\ layers = [id \in {} |-> NewLayer(0, "")]
    /\ features = <<>>
    /\ nextLayerId = 1
    /\ Quiescent
    /\ resp \in {[op |-> "infer_schema", kind |-> "request", sample |-> sp,
                   schema |-> EmptyMap] : sp \in SeqsUpTo(SampleMaps, MaxSample)}

InferSchema ==
    /\ resp.op = "infer_schema"
    /\ resp.kind = "request"
    /\ resp' = [resp EXCEPT !.kind = "result", !.schema = infer_schema(resp.sample)]
    /\ UNCHANGED <<layers, features, nextLayerId, inflight>>

InferSchemaSpec == InferSchemaInit /\ [][InferSchema]_vars

\* The ingest pipeline alone, on layer 1 ("roads"): the layer is empty or
\* holds what a first GeoPackage left in it; a file is ingested, and may be
\* ingested once more; _batch_insert is called on a session with nothing
\* pending.  resp keeps the call next to its outcome: before is the store
\* the call found, prior the import_file call that came just before it.
MaxBatch == 3

IngestIdle == [op |-> "ingest", kind |-> "idle"]

\* The import_file call r records, <<>> when r records none.
CallOf(r) ==
    IF r.kind = "import_file" THEN <<r.blob, r.replace_existing, r.fails>> ELSE <<>>

IngestCall(prior, blob, replace_existing, fails, before, out) ==
    [op |-> "ingest", kind |-> "import_file", prior |-> CallOf(prior), blob |-> blob,
     replace_existing |-> replace_existing, fails |-> fails, before |-> before,
     out |-> out]

BatchCall(records, chunk_size, fails, before, ins) ==
    [op |-> "ingest", kind |-> "_batch_insert", records |-> records,
     chunk_size |-> chunk_size, fails |-> fails, before |-> before,
     imported |-> ins.imported, failed |-> ins.failed, errors |-> ins.errors]

RecordPool ==
    {make_record(1, GoodFeature(<<"a">>, Pt, Props(EmptyMap)), <<"a">>),
     make_record(1, GoodFeature(<<"a">>, Ln, Props(EmptyMap)), <<"a">>),
     make_record(1, GoodFeature(<<"b">>, Ln, Props(EmptyMap)), <<"b">>)}

\* The store with layer 1 just created, and the store import_file leaves
\* when a GeoPackage with one LineString feature "a" is ingested into it.
FreshStore == Store(<<>>, [id \in {1} |-> NewLayer(1, "roads")])

LoadedStore ==
    import_file(import_dispatch(Blob(".gpkg", FALSE, <<GoodFeature(<<"a">>, Ln, Props(EmptyMap))>>),
                                1, FALSE, {}, FreshStore.features, FreshStore.layers),
                1, "LineString").store

IngestInit ==
    /\ \E store \in {FreshStore, LoadedStore} :
          features = store.features /\ layers = store.layers
    /\ nextLayerId = 2
    /\ Quiescent
    /\ resp = IngestIdle

IngestReturn(blob, replace_existing, fails, r) ==
    /\ Len(r.store.features) <= MaxRows
    /\ features' = r.store.features
    /\ layers' = r.store.layers
    /\ resp' = IngestCall(resp, blob, replace_existing, fails,
                          Store(features, layers), r.resp)

IngestDispatched(blob, replace_existing, fails, d) ==
    /\ ~d.outOfPool
    /\ \E geom_type \in StatGeomTypes(d.working.features, 1) :
         IngestReturn(blob, replace_existing, fails, import_file(d, 1, geom_type))

ImportInto(blob, replace_existing) ==
    /\ \E fails \in SUBSET (1..NumChunks(NumRecords(blob), ChunkSize)) :
         IngestDispatched(blob, replace_existing, fails,
             import_dispatch(blob, 1, replace_existing, fails, features, layers))
    /\ UNCHANGED <<nextLayerId, inflight>>

\* import_file, called for a file that just arrived.
Ingest(blob, replace_existing) ==
    /\ resp.op = "ingest"
    /\ resp.kind = "idle"
    /\ ImportInto(blob, replace_existing)

\* import_file, called once more for the file of the call before.
IngestAgain(replace_existing) ==
    /\ resp.op = "ingest"
    /\ resp.kind = "import_file"
    /\ resp.prior = <<>>
    /\ ImportInto(resp.blob, replace_existing)

BatchReturn(records, chunk_size, fails, ins) ==
    /\ Len(ins.committed.features) <= MaxRows
    /\ features' = ins.committed.features
    /\ layers' = ins.committed.layers
    /\ resp' = BatchCall(records, chunk_size, fails, Store(features, layers), ins)

BatchInsert(records, chunk_size) ==
    /\ resp.op = "ingest"
    /\ resp.kind = "idle"
    /\ \E fails \in SUBSET (1..NumChunks(Len(records), chunk_size)) :
         BatchReturn(records, chunk_size, fails,
             batch_insert([committed |-> Store(features, layers),
                           working |-> Store(features, layers),
                           imported |-> 0, failed |-> 0, errors |-> <<>>],
                          records, chunk_size, fails, 1))
    /\ UNCHANGED <<nextLayerId, inflight>>

IngestNext ==
    \/ \E blob \in Blobs, replace_existing \in BOOLEAN : Ingest(blob, replace_existing)
    \/ \E replace_existing \in BOOLEAN : IngestAgain(replace_existing)
    \/ \E records \in SeqsUpTo(RecordPool, MaxBatch), chunk_size \in 1..2 :
         BatchInsert(records, chunk_size)

IngestSpec == IngestInit /\ [][IngestNext]_vars

\* The transaction engine alone: the layers "roads" (1) and "parks" (2)
\* exist and hold what one transaction of inserts left in them; one
\* transaction is executed.  resp keeps the request next to its outcome:
\* before is the store the request found, insertResults the ids of the
\* response's wfs:InsertResults.
TwoLayers == [id \in {1, 2} |-> NewLayer(id, IF id = 1 THEN "roads" ELSE "parks")]

NameSurface == [k \in {"name", "surface"} |-> IF k = "name" THEN StrVal("x") ELSE StrVal("tar")]
NameLanes == [k \in {"name", "lanes"} |-> IF k = "name" THEN StrVal("w") ELSE StrVal("4")]

TxDoc(children) == [parse |-> "ok", root |-> "Transaction", children |-> children]

SeedDocs ==
    {TxDoc(<<>>),
     TxDoc(<<InsertOf(<<FeatureElem("roads", <<"a">>, GmlPt, NameSurface),
                        FeatureElem("parks", <<"a">>, GmlPt, NameSurface)>>)>>),
     TxDoc(<<InsertOf(<<FeatureElem("roads", <<"a">>, NoGml, NameSurface),
                        FeatureElem("roads", <<"roads", "roads", "a">>, GmlLn, EmptyMap)>>)>>),
     TxDoc(<<InsertOf(<<FeatureElem("roads", <<"a">>, GmlLn, NameSurface),
                        FeatureElem("roads", <<"b">>, GmlPt, EmptyMap)>>)>>)}

TxStores == {execute_transaction(d, <<>>, TwoLayers).store : d \in SeedDocs}

TxRids ==
    {<<>>, <<<<"a">>>>, <<<<"roads", "a">>>>, <<<<"parks", "a">>>>, <<<<"a">>, <<"a">>>>,
     <<<<"roads", "a">>, <<"b">>>>, <<<<"zz">>>>, <<<<"roads", "roads", "a">>>>}

TxUpdates ==
    {UpdateOf(t, pu, g, rids) :
        t \in {"roads", "parks"}, pu \in {EmptyMap, NameLanes},
        g \in {NoGml, GmlLn, GmlFar}, rids \in TxRids}

TxDeletes == {DeleteOf(t, rids) : t \in {"roads", "parks"}, rids \in TxRids}

TxInserts ==
    {InsertOf(<<FeatureElem(t, id, GmlPt, NameLanes)>>) :
        t \in {"roads", "parks"},
        id \in {<<>>, <<"a">>, <<"c">>, <<"roads", "c">>, <<"roads", "roads", "c">>}}

TxDocs ==
    {TxDoc(<<c>>) : c \in TxUpdates \cup TxDeletes \cup TxInserts}
    \cup {TxDoc(cs) : cs \in SeqsUpTo(CoreChildren, MaxOps)}

TxIdle == [op |-> "tx", kind |-> "idle"]

TxCall(doc, before, out, inserted) ==
    [op |-> "tx", kind |-> "done", doc |-> doc, before |-> before, out |-> out,
     insertResults |-> IF out.kind = "TransactionResponse"
                       THEN insert_results(inserted) ELSE <<>>]

TxInit ==
    /\ \E store \in TxStores : features = store.features /\ layers = store.layers
    /\ nextLayerId = 3
    /\ Quiescent
    /\ resp = TxIdle

TransactReturn(doc, r, ran) ==
    /\ ~r.outOfPool
    /\ Len(r.store.features) <= MaxRows
    /\ features' = r.store.features
    /\ layers' = r.store.layers
    /\ resp' = TxCall(doc, Store(features, layers), r.resp, ran.inserted)

\* execute_transaction, called for a body that just arrived.
Transact(doc) ==
    /\ resp.op = "tx"
    /\ resp.kind = "idle"
    /\ TransactReturn(doc, execute_transaction(doc, features, layers),
                      exec_children(TxBegin(features, layers), doc.children, 1))
    /\ UNCHANGED <<nextLayerId, inflight>>

TxNext == \E doc \in TxDocs : Transact(doc)

TxSpec == TxInit /\ [][TxNext]_vars

\* The /wfs endpoint alone: the store holds what one transaction of
\* inserts left in the layers "roads" and "parks"; one request arrives and
\* is routed.  Texts are sequences of characters.
LowerCase == <<"a", "b", "c", "d", "e", "f", "g", "h", "i", "j", "k", "l", "m", "n", "o", "p", "q", "r", "s", "t", "u", "v", "w", "x", "y", "z">>
UpperCase == <<"A", "B", "C", "D", "E", "F", "G", "H", "I", "J", "K", "L", "M", "N", "O", "P", "Q", "R", "S", "T", "U", "V", "W", "X", "Y", "Z">>

\* str.upper
ToUpper(t) ==
    [i \in 1..Len(t) |->
        IF \E k \in 1..Len(LowerCase) : LowerCase[k] = t[i]
        THEN UpperCase[CHOOSE k \in 1..Len(LowerCase) : LowerCase[k] = t[i]]
        ELSE t[i]]

\* str.lower
ToLower(t) ==
    [i \in 1..Len(t) |->
        IF \E k \in 1..Len(UpperCase) : UpperCase[k] = t[i]
        THEN LowerCase[CHOOSE k \in 1..Len(UpperCase) : UpperCase[k] = t[i]]
        ELSE t[i]]

RECURSIVE LStrip(_)
LStrip(t) == IF t # <<>> /\ t[1] = " " THEN LStrip(Tail(t)) ELSE t

RECURSIVE RStrip(_)
RStrip(t) == IF t # <<>> /\ t[Len(t)] = " " THEN RStrip(SubSeq(t, 1, Len(t) - 1)) ELSE t

\* str.strip
Strip(t) == RStrip(LStrip(t))

\* Python's "a or b" on texts: an absent parameter is the empty text.
OrText(a, b) == IF a # <<>> THEN a ELSE b

TGETCAPABILITIES == <<"G", "E", "T", "C", "A", "P", "A", "B", "I", "L", "I", "T", "I", "E", "S">>
TDESCRIBEFEATURETYPE == <<"D", "E", "S", "C", "R", "I", "B", "E", "F", "E", "A", "T", "U", "R", "E", "T", "Y", "P", "E">>
TGETFEATURE == <<"G", "E", "T", "F", "E", "A", "T", "U", "R", "E">>
TTRANSACTION == <<"T", "R", "A", "N", "S", "A", "C", "T", "I", "O", "N">>
Txml == <<"x", "m", "l">>

\* build_capabilities: the layers, by name.
build_capabilities(lyrs) ==
    [op |-> "GetCapabilities", kind |-> "WFS_Capabilities",
     layers |-> {lyrs[id].name : id \in DOMAIN lyrs}]

\* build_describe: typenames is the list of names of the parameter (<<>>
\* when it is absent); the schema document describes the layers the
\* SELECT found.
build_describe(typenames, lyrs) ==
    [op |-> "DescribeFeatureType", kind |-> "schema",
     layers |-> IF typenames # <<>>
                THEN {lyrs[id].name : id \in DOMAIN lyrs} \cap Range(typenames)
                ELSE {lyrs[id].name : id \in DOMAIN lyrs}]

\* The reply of wfs_endpoint: ran lists the handlers that were run.
Reply(ran, status, store, out) ==
    [ran |-> ran, status |-> status, store |-> store, out |-> out]

\* raise HTTPException(status_code, detail)
HttpError(status, detail, store) ==
    Reply(<<"HTTPException">>, status, store,
          [op |-> "HTTPException", kind |-> "raised", detail |-> detail])

\* The status of the reply that carries out: 400 where the handler raised
\* HTTPException(400), 500 where it raised anything else.
StatusOf(out) ==
    IF out.kind = "400" THEN 400 ELSE IF out.kind = "raised" THEN 500 ELSE 200

\* The parameters of a routed request that GetFeature reads.
FeatureRequest(rq) ==
    [typenames |-> IF rq.typenames = <<>> THEN "" ELSE rq.typenames[1],
     BBOX |-> <<>>, COUNT |-> None, count |-> None,
     STARTINDEX |-> 0, startindex |-> 0, fmt |-> rq.fmt]

\* Every POST that carries a body is handed to the transaction engine.
posts_transaction_AnyPost(rq, req_upper) ==
    rq.method = "POST" /\ rq.body.bytes # <<>>

\* The block of wfs_endpoint that hands a POST body to the transaction
\* engine: does it run execute_transaction (and return)?
posts_transaction(rq, req_upper) ==
    /\ rq.method = "POST"
    /\ req_upper = TTRANSACTION \/ req_upper = <<>>
    /\ Contains(ToLower(rq.content_type), Txml) \/ req_upper = TTRANSACTION
    /\ rq.body.bytes # <<>>
    /\ req_upper = TTRANSACTION \/ "Transaction" \in Range(rq.body.bytes)

\* The if / elif chain of wfs_endpoint on REQUEST.
dispatch(rq, req, req_upper, store) ==
    IF req_upper = TGETCAPABILITIES \/ req = <<>>
    THEN Reply(<<"GetCapabilities">>, 200, store, build_capabilities(store.layers))
    ELSE IF req_upper = TDESCRIBEFEATURETYPE
    THEN Reply(<<"DescribeFeatureType">>,
               StatusOf(build_describe(rq.typenames, store.layers)), store,
               build_describe(rq.typenames, store.layers))
    ELSE IF req_upper = TGETFEATURE
    THEN Reply(<<"GetFeature">>,
               StatusOf(get_feature(FeatureRequest(rq), store.features, store.layers)),
               store,
               get_feature(FeatureRequest(rq), store.features, store.layers))
    ELSE IF req_upper = TTRANSACTION
    THEN HttpError(400, "Transaction requires XML POST body", store)
    ELSE HttpError(400, "Unknown REQUEST", store)

\* The reply for a body handed to execute_transaction, r its result.
transaction_reply(r) ==
    Reply(<<"Transaction">>, StatusOf(r.resp), r.store, r.resp)

routed(rq, req, store) ==
    IF posts_transaction(rq, ToUpper(req))
    THEN transaction_reply(execute_transaction(rq.body.doc, store.features, store.layers))
    ELSE dispatch(rq, req, ToUpper(req), store)

\* wfs_endpoint on rq = [method, REQUEST, request, content_type, body,
\* typenames, fmt]; body is [bytes, doc], bytes the words of the raw body
\* and doc what ET.fromstring makes of it.
wfs_endpoint(rq, store) == routed(rq, Strip(OrText(rq.REQUEST, rq.request)), store)

RequestTexts ==
    {<<>>, <<" ", " ">>,
      <<"G", "e", "t", "C", "a", "p", "a", "b", "i", "l", "i", "t", "i", "e", "s">>, <<"g", "e", "t", "c", "a", "p", "a", "b", "i", "l", "i", "t", "i", "e", "s">>,
      <<"D", "e", "s", "c", "r", "i", "b", "e", "F", "e", "a", "t", "u", "r", "e", "T", "y", "p", "e">>, <<"D", "E", "S", "C", "R", "I", "B", "E", "F", "E", "A", "T", "U", "R", "E", "T", "Y", "P", "E">>,
      <<"G", "e", "t", "F", "e", "a", "t", "u", "r", "e">>, <<" ", "g", "e", "t", "f", "e", "a", "t", "u", "r", "e", " ">>,
      <<"T", "r", "a", "n", "s", "a", "c", "t", "i", "o", "n">>, <<"T", "R", "A", "N", "S", "A", "C", "T", "I", "O", "N">>, <<"t", "r", "a", "n", "s", "a", "c", "t", "i", "o", "n">>,
      <<"G", "e", "t", "M", "a", "p">>, <<"T", "r", "a", "n", "s", "a", "c", "t", "i", "o", "n", "s">>}

ContentTypes == {<<>>, <<"t", "e", "x", "t", "/", "x", "m", "l">>, <<"a", "p", "p", "l", "i", "c", "a", "t", "i", "o", "n", "/", "X", "M", "L">>, <<"t", "e", "x", "t", "/", "p", "l", "a", "i", "n">>}

Body(bytes, doc) == [bytes |-> bytes, doc |-> doc]

Bodies ==
    {Body(<<>>, [parse |-> "ParseError", root |-> "", children |-> <<>>]),
      Body(<<"<", "Transaction", ">", "<", "Delete", ">">>,
           TxDoc(<<DeleteOf("roads", <<<<"roads", "a">>>>)>>)),
      Body(<<"<", "Transaction", ">", "<", "Insert", ">">>,
           TxDoc(<<InsertOf(<<FeatureElem("parks", <<"c">>, GmlPt, NameLanes)>>)>>)),
      Body(<<"<", "Transaction">>, [parse |-> "ParseError", root |-> "", children |-> <<>>]),
      Body(<<"<", "GetFeature", ">">>, [parse |-> "ok", root |-> "GetFeature", children |-> <<>>])}

WfsRequests ==
    {[method |-> m, REQUEST |-> t, request |-> <<>>, content_type |-> ct, body |-> b,
       typenames |-> tn, fmt |-> "json"] :
         m \in {"GET", "POST"}, t \in RequestTexts, ct \in ContentTypes, b \in Bodies,
         tn \in {<<>>, <<"roads">>, <<"unknown">>, <<"roads", "unknown">>}}
    \cup {[method |-> m, REQUEST |-> <<>>, request |-> t, content_type |-> <<>>,
            body |-> Body(<<>>, [parse |-> "ParseError", root |-> "", children |-> <<>>]),
            typenames |-> <<"roads">>, fmt |-> "gml"] :
              m \in {"GET", "POST"}, t \in RequestTexts}

WfsIdle == [op |-> "wfs", kind |-> "idle"]

WfsCall(rq, before, reply) ==
    [op |-> "wfs", kind |-> "done", rq |-> rq, before |-> before,
     ran |-> reply.ran, status |-> reply.status, out |-> reply.out]

WfsInit ==
    /\ \E store \in TxStores : features = store.features /\ layers = store.layers
    /\ nextLayerId = 3
    /\ Quiescent
    /\ resp = WfsIdle

WfsReturn(rq, reply) ==
    /\ Len(reply.store.features) <= MaxRows
    /\ features' = reply.store.features
    /\ layers' = reply.store.layers
    /\ resp' = WfsCall(rq, Store(features, layers), reply)

\* GET or POST /wfs.
WfsEndpoint(rq) ==
    /\ resp.op = "wfs"
    /\ resp.kind = "idle"
    /\ WfsReturn(rq, wfs_endpoint(rq, Store(features, layers)))
    /\ UNCHANGED <<nextLayerId, inflight>>

WfsNext == \E rq \in WfsRequests : WfsEndpoint(rq)

WfsSpec == WfsInit /\ [][WfsNext]_vars

\* Handlers next to each other.  The layer "roads" (1) holds the feature
\* 'a'; two handlers, each on its own session, serve one request each,
\* step by step: layer create and delete, symbology rule create and
\* replace, WFS-T transactions of one Insert or one Update, and uploads in
\* append mode.  A step is one read of the committed store or one unit of
\* work from its first write to its commit.

\* PRAGMA foreign_keys=OFF: no row is refused for its layer_id.
ForeignKeyOk_Off(lyrs, layer_id) == TRUE

\* PRAGMA foreign_keys=ON with layer_id REFERENCES layers(id): may a row
\* that refers to layer_id be written?
ForeignKeyOk(lyrs, layer_id) == layer_id \in DOMAIN lyrs

\* A row of symbology_rules.
Rule(layer_id, label) == [layer_id |-> layer_id, label |-> label]

Done(h, out) == [h EXCEPT !.pc = "done", !.out = out]

Status(code) == [kind |-> "status", code |-> code]

\* _get_layer_or_404
get_layer_or_404(h, lyrs, layer_id, pc) ==
    IF layer_id \in DOMAIN lyrs THEN [h EXCEPT !.pc = pc] ELSE Done(h, Status(404))

\* The handler s takes the request (op, arg) and runs up to its first
\* read of the layer.
LayerChecked(s, op, arg, layer_id, pc) ==
    /\ sessions[s].pc = "idle"
    /\ sessions' = [sessions EXCEPT ![s] =
          get_layer_or_404(Handler(op, "idle", arg, <<>>, <<>>), layers, layer_id, pc)]

At(s, op, pc) == sessions[s].op = op /\ sessions[s].pc = pc

\* create_layer
CreateLayerWrite(s, name) ==
    /\ sessions[s].pc = "idle"
    /\ nextLayerId <= MaxLayers
    /\ IF LayerIdsNamed(layers, name) # {}
       THEN /\ sessions' = [sessions EXCEPT ![s] =
                   Done(Handler("create_layer", "idle", name, <<>>, <<>>), Status(409))]
            /\ UNCHANGED <<layers, nextLayerId>>
       ELSE /\ layers' = [id \in (DOMAIN layers) \cup {nextLayerId} |->
                            IF id = nextLayerId THEN NewLayer(id, name) ELSE layers[id]]
            /\ nextLayerId' = nextLayerId + 1
            /\ sessions' = [sessions EXCEPT ![s] =
                   Done(Handler("create_layer", "idle", name, <<>>, <<>>), Status(201))]
    /\ UNCHANGED <<features, rules, uploads, resp>>

\* delete_layer: _get_layer_or_404
DeleteLayerCheck(s, id) ==
    /\ LayerChecked(s, "delete_layer", id, id, "delete")
    /\ UNCHANGED <<layers, features, rules, nextLayerId, uploads, resp>>

\* delete_layer: with db: DELETE FROM layers WHERE id = ?
DeleteLayerWrite(s) ==
    /\ At(s, "delete_layer", "delete")
    /\ layers' = [x \in (DOMAIN layers) \ {sessions[s].arg} |-> layers[x]]
    /\ features' = SelectSeq(features, LAMBDA r : r.layer_id # sessions[s].arg)
    /\ rules' = SelectSeq(rules, LAMBDA r : r.layer_id # sessions[s].arg)
    /\ sessions' = [sessions EXCEPT ![s] = Done(@, Status(204))]
    /\ UNCHANGED <<nextLayerId, uploads, resp>>

\* create_rule: _get_layer_or_404
CreateRuleCheck(s, layer_id, label) ==
    /\ LayerChecked(s, "create_rule", Rule(layer_id, label), layer_id, "insert")
    /\ UNCHANGED <<layers, features, rules, nextLayerId, uploads, resp>>

\* create_rule: with db: INSERT INTO symbology_rules
CreateRuleWrite(s) ==
    /\ At(s, "create_rule", "insert")
    /\ IF ForeignKeyOk(layers, sessions[s].arg.layer_id)
       THEN /\ rules' = Append(rules, sessions[s].arg)
            /\ sessions' = [sessions EXCEPT ![s] = Done(@, Status(201))]
       ELSE /\ rules' = rules
            /\ sessions' = [sessions EXCEPT ![s] =
                   Done(@, [kind |-> "raised", code |-> "IntegrityError"])]
    /\ UNCHANGED <<layers, features, nextLayerId, uploads, resp>>

\* replace_rules: _get_layer_or_404
ReplaceRulesCheck(s, layer_id, labels) ==
    /\ LayerChecked(s, "replace_rules", [layer_id |-> layer_id, labels |-> labels],
                    layer_id, "replace")
    /\ UNCHANGED <<layers, features, rules, nextLayerId, uploads, resp>>

\* replace_rules: with db: DELETE the rules of the layer, INSERT the body's
replace_rules(rls, lyrs, layer_id, labels) ==
    IF labels # <<>> /\ ~ForeignKeyOk(lyrs, layer_id) THEN rls
    ELSE SelectSeq(rls, LAMBDA r : r.layer_id # layer_id)
            \o [i \in 1..Len(labels) |-> Rule(layer_id, labels[i])]

ReplaceRulesWrite(s) ==
    /\ At(s, "replace_rules", "replace")
    /\ rules' = replace_rules(rules, layers, sessions[s].arg.layer_id, sessions[s].arg.labels)
    /\ sessions' = [sessions EXCEPT ![s] =
          Done(@, IF sessions[s].arg.labels # <<>>
                     /\ ~ForeignKeyOk(layers, sessions[s].arg.layer_id)
                  THEN [kind |-> "raised", code |-> "IntegrityError"]
                  ELSE Status(200))]
    /\ UNCHANGED <<layers, features, nextLayerId, uploads, resp>>

\* What execute_transaction reads for its one child before its first
\* write: _get_layer and, for an Update, the SELECT of the row of the first
\* ResourceId.  Python's sqlite3 opens the unit of work with the first
\* INSERT / UPDATE / DELETE, so these reads see the committed store and
\* hold no lock.
tx_reads(child, feats, lyrs) ==
    LET lk == get_layer(lyrs, IF child.tag = "Insert" THEN child.features[1].tag
                              ELSE child.typeName)
        fids == parse_resource_ids(child.rids, child.typeName)
        i == IF child.tag = "Update" /\ lk.err = NoErr /\ fids # <<>>
             THEN FindRow(feats, lk.id, fids[1]) ELSE 0
    IN [lk |-> lk, fid |-> IF fids # <<>> THEN fids[1] ELSE <<>>, found |-> i # 0,
        properties |-> IF i # 0 THEN feats[i].properties ELSE Props(EmptyMap)]

\* _update_layer_stats of the transaction engine for a layer id that may
\* be gone: the UPDATE then matches no row.
tx_stats(feats, lyrs, layer_id) ==
    IF layer_id \in DOMAIN lyrs THEN tx_update_layer_stats(feats, lyrs, layer_id) ELSE lyrs

\* The unit of work of an Insert of one feature: INSERT INTO features, the
\* stats, the commit.  Gives [store, resp].
tx_insert_writes(fe, local, fid, p, feats, lyrs) ==
    IF ~ForeignKeyOk(lyrs, local.lk.id)
    THEN [store |-> Store(feats, lyrs),
          resp |-> exception_report("NoApplicableCode", "foreign_key")]
    ELSE IF ~UniqueOk(feats, local.lk.id, fid)
    THEN [store |-> Store(feats, lyrs),
          resp |-> exception_report("NoApplicableCode", "duplicate_fid")]
    ELSE [store |-> Store(Append(feats, Row(local.lk.id, fid, p.geom, Props(fe.props),
                                            bbox_from_geom(p.geom))),
                          tx_stats(Append(feats, Row(local.lk.id, fid, p.geom,
                                                     Props(fe.props),
                                                     bbox_from_geom(p.geom))),
                                   lyrs, local.lk.id)),
          resp |-> build_response(<<<<fe.tag, fid>>>>, 0, 0, {local.lk.id})]

\* The unit of work of an Update of properties for one ResourceId: the
\* UPDATE writes the map merged from what the SELECT read into the row the
\* SELECT found (if it is still there), then the stats and the commit.
tx_update_writes(child, local, feats, lyrs) ==
    [store |-> Store([i \in 1..Len(feats) |->
                         IF local.found /\ feats[i].layer_id = local.lk.id
                            /\ feats[i].fid = local.fid
                         THEN [feats[i] EXCEPT !.properties =
                                  Props(MapUpdate(local.properties.items,
                                                  child.prop_updates))]
                         ELSE feats[i]],
                     tx_stats(feats, lyrs, local.lk.id)),
     resp |-> build_response(<<>>, IF local.found THEN 1 ELSE 0, 0, {local.lk.id})]

tx_writes(child, local, feats, lyrs) ==
    IF child.tag = "Insert"
    THEN tx_insert_writes(child.features[1], local,
                          StripPrefix(child.features[1].gmlid, child.features[1].tag),
                          GmlToStorage(child.features[1].geom), feats, lyrs)
    ELSE tx_update_writes(child, local, feats, lyrs)

\* execute_transaction up to its first write.
TxRead(s, doc) ==
    /\ sessions[s].pc = "idle"
    /\ LET local == tx_reads(doc.children[1], features, layers)
           h == Handler("execute_transaction", "write", doc, local, <<>>)
       IN sessions' = [sessions EXCEPT ![s] =
              IF local.lk.err # NoErr
              THEN Done(h, exception_report(local.lk.err.code, local.lk.err.cause))
              ELSE h]
    /\ UNCHANGED <<layers, features, rules, nextLayerId, uploads, resp>>

TxWritten(s, w) ==
    /\ features' = w.store.features
    /\ layers' = w.store.layers
    /\ sessions' = [sessions EXCEPT ![s] = Done(@, w.resp)]

\* execute_transaction from its first write to the commit of "with db:".
TxWrite(s) ==
    /\ At(s, "execute_transaction", "write")
    /\ TxWritten(s, tx_writes(sessions[s].arg.children[1], sessions[s].local,
                              features, layers))
    /\ UNCHANGED <<rules, nextLayerId, uploads, resp>>

\* import_layer_file: the layer check, then the temp path.
ImportCheck(s, layer_id, filename, blob) ==
    /\ LayerChecked(s, "import_layer_file",
                    [layer_id |-> layer_id, blob |-> blob,
                     path |-> tmp_path(layer_id, filename)],
                    layer_id, "save")
    /\ UNCHANGED <<layers, features, rules, nextLayerId, uploads, resp>>

\* open(tmp_path, "wb") and the copy of the upload into it.
ImportSave(s) ==
    /\ At(s, "import_layer_file", "save")
    /\ uploads' = [p \in (DOMAIN uploads) \cup {sessions[s].arg.path} |->
                      IF p = sessions[s].arg.path THEN sessions[s].arg.blob
                      ELSE uploads[p]]
    /\ sessions' = [sessions EXCEPT ![s].pc = "parse"]
    /\ UNCHANGED <<layers, features, rules, nextLayerId, resp>>

\* What the reader of import_file makes of the file at the temp path:
\* the records of the per-feature loop over the content found there.
import_reads(layer_id, content) ==
    LET loop == feature_loop(layer_id, FormatOf(content.ext), content.feats, 1, {},
                             [records |-> <<>>, errors |-> <<>>, sample_props |-> <<>>,
                              outOfPool |-> FALSE])
    IN [content |-> content, records |-> loop.records,
        sample_props |-> loop.sample_props, k |-> 1, imported |-> 0, failed |-> 0,
        raised |-> FALSE, stats |-> <<>>]

\* import_file opens the temp file and reads it; a file that is no longer
\* there raises, which the handler answers with 422 after its finally.
ImportParse(s) ==
    /\ At(s, "import_layer_file", "parse")
    /\ sessions' = [sessions EXCEPT ![s] =
          IF sessions[s].arg.path \notin DOMAIN uploads
          THEN [@ EXCEPT !.pc = "unlink",
                         !.local = [raised |-> TRUE, content |-> <<>>,
                                    imported |-> 0, failed |-> 0]]
          ELSE [@ EXCEPT !.pc = "chunk",
                         !.local = import_reads(sessions[s].arg.layer_id,
                                                uploads[sessions[s].arg.path])]]
    /\ UNCHANGED <<layers, features, rules, nextLayerId, uploads, resp>>

\* One chunk of _batch_insert: "with db: executemany(INSERT OR IGNORE)";
\* a chunk the store refuses is counted as failed.
ImportChunk(s) ==
    /\ At(s, "import_layer_file", "chunk")
    /\ LET l == sessions[s].local
           chunk == ChunkOf(l.records, ChunkSize, l.k)
           ok == ForeignKeyOk(layers, sessions[s].arg.layer_id)
       IN IF l.k > NumChunks(Len(l.records), ChunkSize)
          THEN /\ features' = features
               /\ sessions' = [sessions EXCEPT ![s].pc = "schema"]
          ELSE /\ features' = IF ok THEN insert_or_ignore(features, chunk, 1) ELSE features
               /\ sessions' = [sessions EXCEPT ![s].local =
                      [l EXCEPT !.k = l.k + 1,
                                !.imported = IF ok THEN l.imported + Len(chunk) ELSE l.imported,
                                !.failed = IF ok THEN l.failed ELSE l.failed + Len(chunk)]]
    /\ UNCHANGED <<layers, rules, nextLayerId, uploads, resp>>

\* _update_attribute_schema
update_attribute_schema(lyrs, layer_id, schema) ==
    IF DOMAIN schema # {} /\ layer_id \in DOMAIN lyrs
    THEN [lyrs EXCEPT ![layer_id].attribute_schema = schema]
    ELSE lyrs

ImportSchema(s) ==
    /\ At(s, "import_layer_file", "schema")
    /\ layers' = update_attribute_schema(layers, sessions[s].arg.layer_id,
                     infer_schema([i \in 1..Len(sessions[s].local.sample_props) |->
                                      sessions[s].local.sample_props[i].items]))
    /\ sessions' = [sessions EXCEPT ![s].pc = "stats_read"]
    /\ UNCHANGED <<features, rules, nextLayerId, uploads, resp>>

\* The aggregate SELECT of import_service._update_layer_stats.
import_stats_row(feats, layer_id, geom_type) ==
    [cnt |-> Cardinality(StatRows(feats, layer_id)),
     bbox |-> AggBBox(feats, StatRows(feats, layer_id)),
     geom_type |-> geom_type]

ImportStatsRead(s) ==
    /\ At(s, "import_layer_file", "stats_read")
    /\ \E geom_type \in StatGeomTypes(features, sessions[s].arg.layer_id) :
          sessions' = [sessions EXCEPT ![s].pc = "stats_write",
                          ![s].local.stats =
                              import_stats_row(features, sessions[s].arg.layer_id, geom_type)]
    /\ UNCHANGED <<layers, features, rules, nextLayerId, uploads, resp>>

\* "with db: UPDATE layers SET feature_count = ?, ..." of
\* import_service._update_layer_stats, with the row its SELECT gave.
import_stats_write(lyrs, feats, layer_id, row) ==
    IF layer_id \notin DOMAIN lyrs THEN lyrs
    ELSE [lyrs EXCEPT ![layer_id] =
            [lyrs[layer_id] EXCEPT
                !.feature_count = row.cnt,
                !.bbox = row.bbox,
                !.geometry_type = IF lyrs[layer_id].geometry_type = ""
                                  THEN row.geom_type ELSE lyrs[layer_id].geometry_type]]

ImportStatsWrite(s) ==
    /\ At(s, "import_layer_file", "stats_write")
    /\ layers' = import_stats_write(layers, features, sessions[s].arg.layer_id,
                                    sessions[s].local.stats)
    /\ sessions' = [sessions EXCEPT ![s].pc = "unlink"]
    /\ UNCHANGED <<features, rules, nextLayerId, uploads, resp>>

\* finally: tmp_path.unlink(missing_ok=True), then the reply.
ImportUnlink(s) ==
    /\ At(s, "import_layer_file", "unlink")
    /\ uploads' = [p \in (DOMAIN uploads) \ {sessions[s].arg.path} |-> uploads[p]]
    /\ sessions' = [sessions EXCEPT ![s] =
          Done(@, [kind |-> IF sessions[s].local.raised THEN "422" ELSE "ImportResult",
                   content |-> sessions[s].local.content,
                   features_imported |-> sessions[s].local.imported,
                   features_failed |-> sessions[s].local.failed])]
    /\ UNCHANGED <<layers, features, rules, nextLayerId, resp>>

SurfaceIs(v) == [k \in {"surface"} |-> v]

ConcDocs ==
    {TxDoc(<<UpdateOf("roads", NameIs(StrVal("w")), NoGml, <<<<"a">>>>)>>),
     TxDoc(<<UpdateOf("roads", SurfaceIs(StrVal("gravel")), NoGml, <<<<"roads", "a">>>>)>>),
     TxDoc(<<InsertOf(<<FeatureElem("roads", <<"b">>, GmlPt, EmptyMap)>>)>>)}

ConcUploads ==
    {[filename |-> "x.geojson",
      blob |-> Blob(".geojson", FALSE, <<GoodFeature(<<"b">>, Ln, Props(EmptyMap))>>)],
     [filename |-> "x.geojson",
      blob |-> Blob(".geojson", FALSE, <<GoodFeature(<<"c">>, Ln, Props(NameIs(StrVal("y"))))>>)],
     [filename |-> "y.geojson",
      blob |-> Blob(".geojson", FALSE, <<GoodFeature(<<"c">>, Ln, Props(NameIs(StrVal("y"))))>>)]}

ConcStore ==
    execute_transaction(
        TxDoc(<<InsertOf(<<FeatureElem("roads", <<"a">>, GmlPt, NameSurface)>>)>>),
        <<>>, [id \in {1} |-> NewLayer(1, "roads")]).store

\* Two requests arrive at a store that earlier requests have left with or
\* without a symbology rule for the layer.
ConcInit ==
    /\ features = ConcStore.features
    /\ layers = ConcStore.layers
    /\ nextLayerId = 2
    /\ rules \in {<<>>, <<Rule(1, "r0")>>}
    /\ sessions = [s \in Sessions |-> IdleSession]
    /\ uploads = NoUploads
    /\ resp = NoResp

ConcNext ==
    \E s \in Sessions :
        \/ CreateLayerWrite(s, "parks")
        \/ \E id \in 1..MaxLayers : DeleteLayerCheck(s, id)
        \/ DeleteLayerWrite(s)
        \/ \E id \in 1..MaxLayers : CreateRuleCheck(s, id, "r1")
        \/ CreateRuleWrite(s)
        \/ \E labels \in {<<>>, <<"r2">>} : ReplaceRulesCheck(s, 1, labels)
        \/ ReplaceRulesWrite(s)
        \/ \E doc \in ConcDocs : TxRead(s, doc)
        \/ TxWrite(s)
        \/ \E u \in ConcUploads : ImportCheck(s, 1, u.filename, u.blob)
        \/ ImportSave(s)
        \/ ImportParse(s)
        \/ ImportChunk(s)
        \/ ImportSchema(s)
        \/ ImportStatsRead(s)
        \/ ImportStatsWrite(s)
        \/ ImportUnlink(s)

ConcSpec == ConcInit /\ [][ConcNext]_vars

\* _parse_bbox alone: a BBOX text arrives, the function is applied to it.
BBoxRequest(b) == [op |-> "parse_bbox", kind |-> "request", parts |-> b.parts,
                   crs |-> b.crs, status |-> 0, bbox |-> None]

ParseBBoxInit ==
    /\ layers = [id \in {} |-> NewLayer(0, "")]
    /\ features = <<>>
    /\ nextLayerId = 1
    /\ Quiescent
    /\ resp \in {BBoxRequest(b) : b \in BBoxTexts}

ParseBBox ==
    /\ resp.op = "parse_bbox"
    /\ resp.kind = "request"
    /\ resp' = [resp EXCEPT !.kind = "result",
                            !.status = parse_bbox(resp.parts).status,
                            !.bbox = parse_bbox(resp.parts).bbox]
    /\ UNCHANGED <<layers, features, nextLayerId, inflight>>

ParseBBoxSpec == ParseBBoxInit /\ [][ParseBBox]_vars

----------------------------------------------------------------------------
(* Properties *)

\* C1: execute_transaction is all-or-nothing.  A step that answers a
\* transaction with an ExceptionReport leaves the features table and the
\* layers table (feature_count and bbox included) exactly as they were; a
\* step that answers with a TransactionResponse commits the effects of all
\* children together, so the table grows by the inserts and shrinks by the
\* deletes the response reports, and every touched layer's stats are those
\* of the committed rows.
C1_AllOrNothing ==
    [][resp'.op = "execute_transaction" =>
          /\ resp'.kind = "ExceptionReport" =>
                features' = features /\ layers' = layers
          /\ resp'.kind = "TransactionResponse" =>
                /\ Len(features') =
                      Len(features) + resp'.totalInserted - resp'.totalDeleted
                /\ \A id \in resp'.touched :
                      layers'[id].feature_count = Cardinality(RowsOf(features', id))]_vars

\* A transaction whose child failed on a duplicate key has been answered
\* while the store holds rows.
C1_Witness ==
    /\ resp.op = "execute_transaction"
    /\ resp.kind = "ExceptionReport"
    /\ resp.cause \in {"duplicate_fid", "unknown_layer"}
    /\ features # <<>>

\* C3: no two stored features have the same (layer_id, fid), whatever
\* sequence of ingests (with or without replace_existing) and WFS-T
\* transactions led to the state.
C3_UniqueFid ==
    \A i, j \in 1..Len(features) :
        (features[i].layer_id = features[j].layer_id /\ features[i].fid = features[j].fid)
            => i = j

\* Two layers hold a feature with the same fid, and an Insert of a taken
\* (layer_id, fid) has just been refused.
C3_Witness ==
    /\ resp.cause = "duplicate_fid"
    /\ \E i, j \in 1..Len(features) :
          /\ features[i].fid = features[j].fid
          /\ features[i].layer_id # features[j].layer_id

\* C2: the exceptionCode of a failed execute_transaction is determined by
\* the failure (malformed XML: InvalidParameterValue; a root that is not
\* Transaction: OperationNotSupported; an unknown layer:
\* InvalidParameterValue; any other failure while executing:
\* NoApplicableCode), and no failure leaves execute_transaction as an
\* exception: it always answers with a TransactionResponse or a report.
C2_ExceptionCodes ==
    resp.op = "execute_transaction" =>
        /\ resp.kind \in {"TransactionResponse", "ExceptionReport"}
        /\ resp.kind = "ExceptionReport" =>
              resp.code = CASE resp.cause = "malformed_xml" -> "InvalidParameterValue"
                            [] resp.cause = "bad_root" -> "OperationNotSupported"
                            [] resp.cause = "unknown_layer" -> "InvalidParameterValue"
                            [] OTHER -> "NoApplicableCode"

\* C4: every stored feature whose geometry is non-null has all four bbox
\* columns non-null and equal to the bounds of the stored geometry.
C4_BBoxPaired ==
    \A i \in 1..Len(features) :
        features[i].geometry # NullWkb =>
            /\ features[i].bbox # NoBBox
            /\ features[i].bbox = bbox_from_geom(wkb_to_geom(features[i].geometry))

\* The rows of a layer, in rowid order.
LayerRows(feats, id) == SelectSeq(feats, LAMBDA r : r.layer_id = id)

\* C5: after an ingest that returns its result, or a committed WFS-T
\* transaction, every layer whose features the request modified has a
\* feature_count equal to the number of rows the layer owns, rows with a
\* null geometry included.
C5_FeatureCount ==
    [][(resp'.kind \in {"ImportResult", "TransactionResponse"}) =>
          \A id \in DOMAIN layers' :
              LayerRows(features', id) # LayerRows(features, id) =>
                  layers'[id].feature_count = Cardinality(RowsOf(features', id))]_vars

\* C6: after any ingest (also one that ends in an error after it has
\* written rows) or committed WFS-T transaction, every layer whose features
\* the request modified has the min/min/max/max aggregate of its features'
\* bboxes as its bbox, and a null bbox when no feature of it has one.
C6_LayerBBox ==
    [][(resp'.op = "import_file" \/ resp'.kind = "TransactionResponse") =>
          \A id \in DOMAIN layers' :
              LayerRows(features', id) # LayerRows(features, id) =>
                  layers'[id].bbox = AggBBox(features', RowsOf(features', id))]_vars

\* What the formulas on GetFeature read off a response.
IsCollection == resp.op = "GetFeature" /\ resp.kind = "FeatureCollection"
QueryBBox(rq) == IF rq.BBOX = <<>> THEN None ELSE parse_bbox(rq.BBOX).bbox
QueriedRows(rq) ==
    {i \in 1..Len(features) : features[i].layer_id \in LayerIdsNamed(layers, rq.typenames)}
GivenCount(rq) == IF rq.COUNT # None THEN rq.COUNT ELSE rq.count

\* C7: for every COUNT (absent, zero, negative, larger than the maximum)
\* and every STARTINDEX, numberReturned is at most
\* min(count if given else max_features_per_request, max_features_per_request),
\* a negative COUNT allowing no feature at all.
C7_PageBound ==
    IsCollection =>
        resp.numberReturned <=
            Max({0, Min({IF GivenCount(resp.request) # None
                         THEN GivenCount(resp.request)[1] ELSE MaxFeatures,
                         MaxFeatures})})

\* C8: numberReturned is at most numberMatched, and numberMatched is the
\* number of rows of the layer that the bbox filter selects, whatever the
\* paging parameters are.
C8_ReturnedAtMostMatched ==
    IsCollection =>
        /\ resp.numberReturned <= resp.numberMatched
        /\ \A id \in LayerIdsNamed(layers, resp.request.typenames) :
              resp.numberMatched = Len(base_sql(features, id, QueryBBox(resp.request)))

C8_Witness ==
    /\ IsCollection
    /\ resp.request.BBOX # <<>>
    /\ resp.numberReturned = 1
    /\ resp.numberMatched = 1
    /\ Cardinality(QueriedRows(resp.request)) = 2

\* The disjunction of C9 on a row with bbox columns and the query bbox
\* q = (q_minx, q_miny, q_maxx, q_maxy).
Disjoint(row, q) ==
    \/ row.bbox[3] < q[1]
    \/ row.bbox[1] > q[3]
    \/ row.bbox[4] < q[2]
    \/ row.bbox[2] > q[4]

\* The rows of the queried layer that a reading of the filter keeps;
\* nullKept says whether a row with null bbox columns is kept.
KeptRows(rq, nullKept) ==
    {i \in QueriedRows(rq) :
        IF features[i].bbox = NoBBox THEN nullKept
        ELSE ~Disjoint(features[i], QueryBBox(rq))}

FilterKeeps(nullKept) ==
    (IsCollection /\ QueryBBox(resp.request) # None) =>
        /\ resp.numberMatched = Cardinality(KeptRows(resp.request, nullKept))
        /\ \A k \in 1..Len(resp.fids) :
              \E i \in KeptRows(resp.request, nullKept) : features[i].fid = resp.fids[k]

\* C9 as stated: a feature is left out of numberMatched and of the page
\* if and only if bbox_maxx < q_minx OR bbox_minx > q_maxx OR
\* bbox_maxy < q_miny OR bbox_miny > q_maxy; on null bbox columns no
\* comparison of the disjunction is true, so such a feature is not left out.
C9_BBoxFilter == FilterKeeps(TRUE)

\* C9 amended: for a feature with bbox columns the disjunction decides,
\* with q bound in the stated pairing; a feature whose bbox columns are
\* null is left out of every bbox-filtered query.
C9_BBoxFilterNonNull == FilterKeeps(FALSE)

C9_Witness ==
    /\ IsCollection
    /\ QueryBBox(resp.request) # None
    /\ resp.numberMatched = 1
    /\ resp.numberReturned = 1
    /\ \E i \in QueriedRows(resp.request) : features[i].bbox = NoBBox

\* C10: _parse_bbox returns (v1, v0, v3, v2) if and only if a fifth token
\* is present and designates EPSG:4326; with no fifth token, a CRS84 token
\* or any other CRS it returns (v0, v1, v2, v3); fewer than four tokens or
\* a non-numeric token among the four is a 400.
C10_AxisSwap ==
    (resp.op = "parse_bbox" /\ resp.kind = "result") =>
        IF Len(resp.parts) < 4 \/ \E k \in 1..4 : ~float_of(resp.parts[k]).ok
        THEN resp.status = 400
        ELSE /\ resp.status = 200
             /\ resp.bbox =
                   IF resp.crs = "EPSG:4326"
                   THEN <<float_of(resp.parts[2]).v, float_of(resp.parts[1]).v,
                          float_of(resp.parts[4]).v, float_of(resp.parts[3]).v>>
                   ELSE <<float_of(resp.parts[1]).v, float_of(resp.parts[2]).v,
                          float_of(resp.parts[3]).v, float_of(resp.parts[4]).v>>

\* The coordinate pairs an element tree holds, in document order, and a
\* list of pairs with each pair turned round.
RECURSIVE AllPos(_)
AllPos(elem) ==
    elem.pos \o ConcatAll([i \in 1..Len(elem.members) |-> AllPos(elem.members[i])])

Swapped(pairs) == [i \in 1..Len(pairs) |-> <<pairs[i][2], pairs[i][1]>>]

\* C11: wkb_to_gml32 writes each pair as (y, x) for EPSG:4326 and as
\* (x, y) for every other CRS; gml32_to_geom turns the parsed pairs round
\* when srsName designates EPSG:4326 or is absent, and leaves them as
\* written for a CRS84 srsName and for any other CRS.
C11_AxisOrder ==
    resp.op = "gml" =>
        /\ (resp.designates = "emitted" /\ resp.kind # "geometry") =>
              AllPos(resp.elem) = IF resp.srid = 4326 THEN Swapped(AllCoords(resp.geom))
                                  ELSE AllCoords(resp.geom)
        /\ (resp.designates # "emitted" /\ resp.kind = "parsed" /\ resp.parsed.ok) =>
              AllCoords(resp.parsed.geom) =
                  IF resp.designates \in {"EPSG:4326", "absent"}
                  THEN Swapped(AllPos(resp.elem)) ELSE AllPos(resp.elem)

\* C12: parsing the element that wkb_to_gml32 emitted for a geometry and
\* an SRID gives a structurally equal geometry and the same SRID.
C12_RoundTrip ==
    (resp.op = "gml" /\ resp.designates = "emitted" /\ resp.kind = "parsed") =>
        resp.parsed = [ok |-> TRUE, geom |-> resp.geom, srid |-> resp.srid]

\* The types of the non-null values a sample holds for field k.
Observed(sample, k) ==
    {sample[i][k].t : i \in {j \in 1..Len(sample) :
                                k \in DOMAIN sample[j] /\ sample[j][k].t # "Null"}}

\* C13: for each field of the sample infer_schema gives Integer if every
\* non-null observation is an integer, Real if the non-null observations
\* are integers and reals with at least one real, String otherwise
\* (booleans count as String); a null contributes no observation; an
\* empty sample gives an empty schema.  A field observed only as null is
\* left open here.
C13_InferSchema ==
    (resp.op = "infer_schema" /\ resp.kind = "result") =>
        /\ DOMAIN resp.schema = UNION {DOMAIN resp.sample[i] : i \in 1..Len(resp.sample)}
        /\ \A k \in DOMAIN resp.schema :
              Observed(resp.sample, k) # {} =>
                  resp.schema[k] =
                      IF Observed(resp.sample, k) = {"Integer"} THEN "Integer"
                      ELSE IF Observed(resp.sample, k) \subseteq {"Integer", "Real"}
                           THEN "Real"
                           ELSE "String"

\* The positions of records that fall into the chunks ks when records is
\* cut into pieces of chunk_size.
InChunks(records, chunk_size, ks) ==
    {i \in 1..Len(records) : ((i - 1) \div chunk_size) + 1 \in ks}

HasKey(feats, r) ==
    \E j \in 1..Len(feats) : feats[j].layer_id = r.layer_id /\ feats[j].fid = r.fid

BatchFailed == InChunks(resp.records, resp.chunk_size, resp.fails)
BatchOk == (1..Len(resp.records)) \ BatchFailed

\* C14: _batch_insert writes each chunk as its own unit of work.  For a
\* failed chunk k none of its rows is stored, all of them are counted as
\* failed and exactly one 'Batch insert error (chunk k)' message is added;
\* the rows of the chunks that succeeded remain stored, and the rows the
\* store held before are untouched.
C14_ChunkUnits ==
    (resp.op = "ingest" /\ resp.kind = "_batch_insert") =>
        /\ resp.failed = Cardinality(BatchFailed)
        /\ resp.imported = Cardinality(BatchOk)
        /\ Len(resp.errors) = Cardinality(resp.fails)
        /\ \A k \in resp.fails :
              Cardinality({j \in 1..Len(resp.errors) :
                              resp.errors[j] = <<"Batch insert error", k - 1>>}) = 1
        /\ Len(features) >= Len(resp.before.features)
        /\ SubSeq(features, 1, Len(resp.before.features)) = resp.before.features
        /\ \A j \in (Len(resp.before.features) + 1)..Len(features) :
              \E i \in BatchOk : resp.records[i] = features[j]
        /\ \A i \in BatchOk : HasKey(features, resp.records[i])

\* A first chunk of two rows failed, one of them under a key that is not
\* stored, and the second chunk's row was stored.
C14_Witness ==
    /\ resp.op = "ingest" /\ resp.kind = "_batch_insert"
    /\ resp.chunk_size = 2 /\ Len(resp.records) = 3 /\ resp.fails = {1}
    /\ Len(features) = Len(resp.before.features) + 1
    /\ \E i \in BatchFailed : ~HasKey(features, resp.records[i])

AllCarryIds(blob) ==
    /\ FormatOf(blob.ext) \in {"geojson", "fiona"}
    /\ blob.feats # <<>>
    /\ \A i \in 1..Len(blob.feats) : blob.feats[i].ok /\ blob.feats[i].id # <<>>

\* C15: ingest insertion is idempotent on (layer_id, fid).  Without replace
\* mode the rows the store held stay as they were, a record whose key is
\* taken does not make its chunk fail, and ingesting the same blob (every
\* feature carrying an id) a second time leaves the store as the first
\* ingest left it.
C15_Idempotent ==
    (resp.op = "ingest" /\ resp.kind = "import_file" /\ ~resp.replace_existing) =>
        /\ Len(features) >= Len(resp.before.features)
        /\ SubSeq(features, 1, Len(resp.before.features)) = resp.before.features
        /\ (resp.fails = {} /\ resp.out.kind = "ImportResult") =>
              /\ \A j \in 1..Len(resp.out.result.errors) :
                    resp.out.result.errors[j][1] # "Batch insert error"
              /\ resp.out.result.features_imported = NumRecords(resp.blob)
        /\ (resp.prior = <<resp.blob, FALSE, {}>> /\ resp.fails = {}
               /\ AllCarryIds(resp.blob)) =>
              Store(features, layers) = resp.before

\* The same id-carrying blob was ingested twice, and the second ingest met
\* its own rows.
C15_Witness ==
    /\ resp.op = "ingest" /\ resp.kind = "import_file" /\ ~resp.replace_existing
    /\ resp.prior = <<resp.blob, FALSE, {}>> /\ resp.fails = {}
    /\ AllCarryIds(resp.blob)
    /\ resp.out.kind = "ImportResult"
    /\ features # <<>>
    /\ \A i \in 1..Len(resp.blob.feats) : HasKey(resp.before.features,
                                                 [layer_id |-> 1, fid |-> resp.blob.feats[i].id])

\* The positions, among n records cut into pieces of ChunkSize, of the
\* records of a failed chunk.
FailedRecords(n, fails) == {i \in 1..n : ((i - 1) \div ChunkSize) + 1 \in fails}

Rejected(blob) == {i \in 1..Len(blob.feats) : ~blob.feats[i].ok}

\* C16: for every format the ImportResult of import_file has imported
\* equal to the number of rows of the chunks that were written and failed
\* equal to the number of rows of the chunks that failed; the features the
\* per-feature loop rejected show up as one message each in errors and
\* nowhere else.
C16_Aggregate ==
    (resp.op = "ingest" /\ resp.kind = "import_file" /\ resp.out.kind = "ImportResult") =>
        /\ resp.out.result.features_failed =
              Cardinality(FailedRecords(NumRecords(resp.blob), resp.fails))
        /\ resp.out.result.features_imported =
              NumRecords(resp.blob)
                 - Cardinality(FailedRecords(NumRecords(resp.blob), resp.fails))
        /\ (resp.blob.feats # <<>>) =>
              Cardinality({j \in 1..Len(resp.out.result.errors) :
                              resp.out.result.errors[j][1] \in {"Feature", "Row"}})
                 = Cardinality(Rejected(resp.blob))

\* The features of a blob the per-feature loop turns into records, in order.
Accepted(blob) == SelectSeq(blob.feats, LAMBDA f : f.ok)

RecordBoxes(blob) ==
    [i \in 1..Len(Accepted(blob)) |-> [bbox |-> bbox_from_geom(Accepted(blob)[i].geom)]]

\* C17: the bbox of the ImportResult is the componentwise union of the
\* bboxes of the records of the chunks that were written, and null when no
\* record was written; the records of a failed chunk do not contribute.
C17_ResultBBox ==
    (resp.op = "ingest" /\ resp.kind = "import_file" /\ resp.out.kind = "ImportResult") =>
        resp.out.result.bbox =
            AggBBox(RecordBoxes(resp.blob),
                    (1..NumRecords(resp.blob))
                       \ FailedRecords(NumRecords(resp.blob), resp.fails))

\* The rows an ingest of blob wrote under ids the blob itself carries: the
\* records of the chunks that did not fail.
WrittenRows(blob, fails) ==
    IF FormatOf(blob.ext) \notin {"geojson", "fiona"} \/ blob.fatal THEN {}
    ELSE {make_record(1, Accepted(blob)[i], Accepted(blob)[i].id) :
             i \in {k \in (1..NumRecords(blob)) \ FailedRecords(NumRecords(blob), fails) :
                       Accepted(blob)[k].id # <<>>}}

\* C18: after import_file with replace_existing the features the layer held
\* before are absent from the store whatever happened next (unsupported
\* suffix, fatal format error, failure of the first chunk): a row found
\* before the call is stored afterwards only if this ingest wrote it anew.
C18_ReplaceDeletes ==
    (resp.op = "ingest" /\ resp.kind = "import_file" /\ resp.replace_existing) =>
        \A j \in 1..Len(resp.before.features) :
            (\E i \in 1..Len(features) : features[i] = resp.before.features[j])
               => resp.before.features[j] \in WrittenRows(resp.blob, resp.fails)

\* 'Row i+1' for the i-th (0-based) row of a CSV, 'Feature i' otherwise;
\* pos is the 1-based position.
IndexTag(blob, pos) ==
    IF FormatOf(blob.ext) = "csv" THEN <<"Row", pos>> ELSE <<"Feature", pos - 1>>

Messages(r, m) == {j \in 1..Len(r.errors) : r.errors[j] = m}

C20_GeometryTypeFrozen ==
    [][\A id \in (DOMAIN layers) \cap (DOMAIN layers') :
          /\ layers[id].geometry_type # "" =>
                layers'[id].geometry_type = layers[id].geometry_type
          /\ layers'[id].geometry_type # layers[id].geometry_type =>
                resp'.op = "import_file"
          /\ resp'.op = "execute_transaction" =>
                /\ layers'[id].geometry_type = layers[id].geometry_type
                /\ layers'[id].attribute_schema = layers[id].attribute_schema]_vars

\* An ingest has been answered for a layer of geometry_type Point whose
\* stored features are all LineStrings.
C20_Witness ==
    /\ resp.op = "import_file" /\ resp.kind = "ImportResult"
    /\ \E id \in DOMAIN layers :
          /\ layers[id].geometry_type = "Point"
          /\ RowsOf(features, id) # {}
          /\ \A i \in RowsOf(features, id) :
                wkb_to_geom(features[i].geometry).type = "LineString"

\* The transaction engine has answered a transaction of the single child
\* of this tag with a TransactionResponse.
TxDone(tag) ==
    /\ resp.op = "tx" /\ resp.kind = "done"
    /\ Len(resp.doc.children) = 1
    /\ resp.doc.children[1].tag = tag
    /\ resp.out.kind = "TransactionResponse"

\* The row is owned by the layer the child names and named by one of the
\* child's ResourceIds.
Targeted(row, child, lyrs) ==
    /\ row.layer_id \in LayerIdsNamed(lyrs, child.typeName)
    /\ \E j \in 1..Len(child.rids) :
          row.fid = (IF Len(child.rids[j]) >= 2 /\ child.rids[j][1] = child.typeName
                     THEN Tail(child.rids[j]) ELSE child.rids[j])

TargetedRows(child, st) ==
    {i \in 1..Len(st.features) : Targeted(st.features[i], child, st.layers)}

\* C22: after an Update with property changes P and optional geometry G,
\* every feature it names holds its previous properties overridden by P
\* (a field P does not mention keeps its value, an empty P leaves the
\* properties as they were), and its geometry and bbox are G and the bounds
\* of G when G is present and unchanged when it is absent.
C22_UpdateMerges ==
    TxDone("Update") =>
        LET u == resp.doc.children[1]
            P == u.prop_updates
            G == GmlToStorage(u.geom).geom
        IN /\ Len(features) = Len(resp.before.features)
           /\ \A i \in TargetedRows(u, resp.before) :
                 LET old == resp.before.features[i]
                     new == features[i]
                 IN /\ new.layer_id = old.layer_id /\ new.fid = old.fid
                    /\ new.properties.kind = "object"
                    /\ DOMAIN new.properties.items
                          = (DOMAIN old.properties.items) \cup (DOMAIN P)
                    /\ \A k \in DOMAIN P : new.properties.items[k] = P[k]
                    /\ \A k \in (DOMAIN old.properties.items) \ (DOMAIN P) :
                          new.properties.items[k] = old.properties.items[k]
                    /\ DOMAIN P = {} => new.properties = old.properties
                    /\ u.geom # NoGml =>
                          /\ new.geometry = geom_to_wkb(G)
                          /\ new.bbox = bbox_from_geom(G)
                    /\ u.geom = NoGml =>
                          /\ new.geometry = old.geometry
                          /\ new.bbox = old.bbox

\* An Update with property changes and a geometry has been applied to a
\* row that held a field the changes do not mention.
C22_Witness ==
    /\ TxDone("Update")
    /\ DOMAIN resp.doc.children[1].prop_updates # {}
    /\ resp.doc.children[1].geom # NoGml
    /\ \E i \in TargetedRows(resp.doc.children[1], resp.before) :
          /\ "surface" \in DOMAIN resp.before.features[i].properties.items
          /\ features[i].properties.items["surface"] = StrVal("tar")
          /\ features[i].properties.items["name"] = StrVal("w")
          /\ features[i].geometry # resp.before.features[i].geometry

\* C23: the totals of a TransactionResponse count rows: totalInserted is
\* the number of rows added and of InsertResults entries, totalDeleted the
\* number of rows removed, totalUpdated the number of existing rows the
\* Update wrote; a ResourceId that names no row, a ResourceId repeated in
\* the Update, or an Update with nothing to set adds nothing to the count.
C23_Totals ==
    /\ TxDone("Insert") =>
          /\ resp.out.totalInserted = Len(features) - Len(resp.before.features)
          /\ resp.out.totalInserted = Len(resp.insertResults)
    /\ TxDone("Delete") =>
          resp.out.totalDeleted = Len(resp.before.features) - Len(features)
    /\ TxDone("Update") =>
          LET u == resp.doc.children[1]
          IN resp.out.totalUpdated
                = (IF DOMAIN u.prop_updates # {} \/ u.geom # NoGml
                   THEN Cardinality(TargetedRows(u, resp.before)) ELSE 0)

\* The name of the layer that owns the row.
OwnerName(row, lyrs) == lyrs[row.layer_id].name

\* C24: the id a feature f of layer L is shown under, 'L.f', resolves to
\* fid f exactly when it comes back as the rid of an Update or Delete on L
\* or as the gml:id of an Insert into L: one leading 'L.' is stripped, and
\* an id that does not start with 'L.' is taken as it is.
C24_IdRoundTrip ==
    /\ \A i \in 1..Len(features) :
          LET L == OwnerName(features[i], layers)
              id == feature_id(L, features[i].fid)
          IN /\ parse_resource_ids(<<id>>, L) = <<features[i].fid>>
             /\ FindRow(features, features[i].layer_id,
                        parse_resource_ids(<<id>>, L)[1]) = i
    /\ TxDone("Insert") /\ Len(features) > Len(resp.before.features) =>
          LET fe == resp.doc.children[1].features[1]
              new == features[Len(features)]
          IN /\ OwnerName(new, layers) = fe.tag
             /\ resp.insertResults = <<feature_id(fe.tag, new.fid)>>
             /\ Len(fe.gmlid) >= 2 /\ fe.gmlid[1] = fe.tag =>
                   <<fe.tag>> \o new.fid = fe.gmlid
             /\ fe.gmlid # <<>> /\ ~(Len(fe.gmlid) >= 2 /\ fe.gmlid[1] = fe.tag) =>
                   new.fid = fe.gmlid
    /\ TxDone("Delete") =>
          LET d == resp.doc.children[1]
          IN \A i \in 1..Len(resp.before.features) :
                LET old == resp.before.features[i]
                    named == \E j \in 1..Len(d.rids) :
                                \/ d.rids[j] = <<d.typeName>> \o old.fid
                                \/ d.rids[j] = old.fid /\ old.fid[1] # d.typeName
                IN OwnerName(old, resp.before.layers) = d.typeName =>
                      (named <=> ~HasKey(features, old))

\* The layer roads held the features 'a' and 'roads.a'; a Delete naming
\* the rid 'roads.a' removed the first and kept the second.
C24_Witness ==
    /\ TxDone("Delete")
    /\ resp.doc.children[1].typeName = "roads"
    /\ resp.doc.children[1].rids = <<<<"roads", "a">>>>
    /\ Len(resp.before.features) = 2
    /\ \A i \in 1..2 : resp.before.features[i].layer_id = 1
    /\ Len(features) = 1
    /\ features[1].fid = <<"roads", "a">>
    /\ resp.out.totalDeleted = 1

\* The rows of the store st that the child does not target, in order.
Untargeted(child, st) ==
    SelectSeq(st.features, LAMBDA r : ~Targeted(r, child, st.layers))

\* The transaction of one Update or Delete child has been executed,
\* whatever its answer.
TxRan(tag) ==
    /\ resp.op = "tx" /\ resp.kind = "done"
    /\ Len(resp.doc.children) = 1
    /\ resp.doc.children[1].tag = tag

\* C30: an Update or Delete on layer L leaves every feature unchanged that
\* is not both owned by L and named by one of its ResourceIds (a feature
\* of another layer with the same fid included); with no ResourceId it
\* changes no feature and reports a count of 0.
C30_Frame ==
    /\ TxRan("Update") =>
          /\ Len(features) = Len(resp.before.features)
          /\ \A i \in 1..Len(features) :
                ~Targeted(resp.before.features[i], resp.doc.children[1],
                          resp.before.layers)
                   => features[i] = resp.before.features[i]
    /\ TxRan("Delete") =>
          Untargeted(resp.doc.children[1], resp.before)
             = Untargeted(resp.doc.children[1], Store(features, layers))
    /\ (TxRan("Update") \/ TxRan("Delete")) /\ resp.doc.children[1].rids = <<>> =>
          /\ features = resp.before.features
          /\ resp.out.totalUpdated = 0
          /\ resp.out.totalDeleted = 0

\* Both layers held a feature 'a'; an Update of parks naming 'a' changed
\* the feature of parks and left the feature of roads as it was.
C30_Witness ==
    /\ TxDone("Update")
    /\ resp.doc.children[1].typeName = "parks"
    /\ resp.doc.children[1].rids = <<<<"a">>>>
    /\ Len(features) = 2
    /\ features[1].layer_id = 1 /\ features[1].fid = <<"a">>
    /\ features[2].layer_id = 2 /\ features[2].fid = <<"a">>
    /\ features[1] = resp.before.features[1]
    /\ features[2] # resp.before.features[2]

\* A request to /wfs has been answered.
WfsDone == resp.op = "wfs" /\ resp.kind = "done"

\* The names of the layers of a store.
NamesOf(st) == {st.layers[id].name : id \in DOMAIN st.layers}

\* C25: a DescribeFeatureType whose typenames name a layer that does not
\* exist is answered with status 404, and a GetFeature for a layer that
\* does not exist is answered without error by an empty collection.
C25_UnknownLayer ==
    WfsDone =>
        /\ resp.ran = <<"DescribeFeatureType">>
              /\ ~(Range(resp.rq.typenames) \subseteq NamesOf(resp.before))
              => resp.status = 404
        /\ resp.ran = <<"GetFeature">> /\ resp.rq.typenames # <<>>
              /\ resp.rq.typenames[1] \notin NamesOf(resp.before)
              => /\ resp.status = 200
                 /\ resp.out.kind = "FeatureCollection"
                 /\ resp.out.numberMatched = 0
                 /\ resp.out.numberReturned = 0

\* Two texts that differ in the case of their letters at most.
SameVerb(a, b) ==
    /\ Len(a) = Len(b)
    /\ \A i \in 1..Len(a) :
          \/ a[i] = b[i]
          \/ \E k \in 1..Len(LowerCase) :
                {a[i], b[i]} = {LowerCase[k], UpperCase[k]}

\* The REQUEST of the answered request, without the blanks around it.
VerbOf(rq) == SelectSeq(OrText(rq.REQUEST, rq.request), LAMBDA c : c # " ")

\* A POST with an XML content type, no REQUEST and a body that contains
\* Transaction.
XmlPost(rq) ==
    /\ rq.method = "POST"
    /\ VerbOf(rq) = <<>>
    /\ \E i \in 1..(Len(rq.content_type) - 2) :
          SameVerb(SubSeq(rq.content_type, i, i + 2), <<"x", "m", "l">>)
    /\ "Transaction" \in Range(rq.body.bytes)

\* The handler the dispatch table names for rq; engine tells whether a
\* REQUEST of TRANSACTION reaches the transaction engine.
TableHandler(rq, engine) ==
    IF XmlPost(rq) THEN "Transaction"
    ELSE IF VerbOf(rq) = <<>> \/ SameVerb(VerbOf(rq), TGETCAPABILITIES) THEN "GetCapabilities"
    ELSE IF SameVerb(VerbOf(rq), TDESCRIBEFEATURETYPE) THEN "DescribeFeatureType"
    ELSE IF SameVerb(VerbOf(rq), TGETFEATURE) THEN "GetFeature"
    ELSE IF SameVerb(VerbOf(rq), TTRANSACTION) /\ engine THEN "Transaction"
    ELSE "HTTPException"

\* The answered request was handled by the handler h and by no other: a
\* transaction is the engine's answer to the raw body, a client error has
\* status 400, and only a transaction touches the store.
HandledBy(h) ==
    /\ resp.ran = <<h>>
    /\ h = "HTTPException" => resp.status = 400
    /\ h = "Transaction" =>
          /\ resp.out = execute_transaction(resp.rq.body.doc, resp.before.features,
                                            resp.before.layers).resp
          /\ Store(features, layers)
                = execute_transaction(resp.rq.body.doc, resp.before.features,
                                      resp.before.layers).store
    /\ h # "Transaction" => Store(features, layers) = resp.before

\* C26 as stated: every request is handled by exactly the handler of the
\* dispatch table, a REQUEST of TRANSACTION by the transaction engine.
C26_Routing == WfsDone => HandledBy(TableHandler(resp.rq, TRUE))

\* C26: every request to /wfs is handled by exactly one handler, chosen by
\* (method, REQUEST, content type, body): REQUEST is compared without
\* regard to case; empty or GETCAPABILITIES is GetCapabilities,
\* DESCRIBEFEATURETYPE DescribeFeatureType, GETFEATURE GetFeature;
\* TRANSACTION is the transaction engine on the raw body when the request
\* is a POST with a non-empty body and a client error otherwise; anything
\* else is a client error; a POST with an XML content type and no REQUEST
\* whose body contains Transaction is executed as a transaction.
C26_RoutingOfPosts ==
    WfsDone =>
        HandledBy(TableHandler(resp.rq,
                               resp.rq.method = "POST" /\ resp.rq.body.bytes # <<>>))

\* A POST without REQUEST, of content type application/XML, whose body is
\* a Transaction with a Delete, was executed and removed a feature.
C26_Witness ==
    /\ WfsDone
    /\ resp.rq.method = "POST"
    /\ resp.rq.REQUEST = <<>> /\ resp.rq.request = <<>>
    /\ ToLower(resp.rq.content_type) # resp.rq.content_type
    /\ resp.ran = <<"Transaction">>
    /\ resp.out.kind = "TransactionResponse"
    /\ resp.out.totalDeleted = 1
    /\ Len(features) < Len(resp.before.features)

\* Every feature row and every symbology rule row refers to a layer that
\* exists.
NoOrphans ==
    /\ \A i \in 1..Len(features) : features[i].layer_id \in DOMAIN layers
    /\ \A i \in 1..Len(rules) : rules[i].layer_id \in DOMAIN layers

\* C21: in every state that interleaved layer creates and deletes,
\* uploads, WFS-T transactions and rule requests reach, every feature and
\* every symbology rule refers to a layer that exists, and the step that
\* deletes a layer removes all of its features and rules.
C21_NeverOutliveLayer ==
    /\ []NoOrphans
    /\ [][\A id \in (DOMAIN layers) \ (DOMAIN layers') :
            /\ \A i \in 1..Len(features') : features'[i].layer_id # id
            /\ \A i \in 1..Len(rules') : rules'[i].layer_id # id]_vars

\* A layer was deleted, with its feature and its rule, between the layer
\* check and the INSERT of a create_rule, which the store then refused.
C21_Witness ==
    \E s \in Sessions, o \in Sessions :
        /\ sessions[s].op = "create_rule" /\ sessions[s].pc = "done"
        /\ sessions[s].out.kind = "raised"
        /\ sessions[o].op = "delete_layer" /\ sessions[o].pc = "done"
        /\ sessions[o].out = Status(204)
        /\ features = <<>> /\ rules = <<>>

\* The handler s serves an upload and has written its temp file, which it
\* has not yet removed.
HoldsTempFile(s) ==
    /\ sessions[s].op = "import_layer_file"
    /\ sessions[s].pc \in {"parse", "chunk", "schema", "stats_read", "stats_write", "unlink"}

\* C27: two uploads in flight at the same time never have the same temp
\* path (two uploads of the same filename to the same layer included), so
\* the file an import is about to read is there and is the one it wrote;
\* and when a request ends its temp file is gone.
C27_TempPaths ==
    /\ [](\A s \in Sessions, o \in Sessions :
            s # o /\ HoldsTempFile(s) /\ HoldsTempFile(o)
               => sessions[s].arg.path # sessions[o].arg.path)
    /\ [](\A s \in Sessions :
            At(s, "import_layer_file", "parse")
               => /\ sessions[s].arg.path \in DOMAIN uploads
                  /\ uploads[sessions[s].arg.path] = sessions[s].arg.blob)
    /\ [][\A s \in Sessions :
            At(s, "import_layer_file", "unlink") /\ sessions'[s].pc = "done"
               => sessions[s].arg.path \notin DOMAIN uploads']_vars

\* The handler s has answered a transaction of one Update with a
\* TransactionResponse that counts one updated row.
UpdateAnswered(s) ==
    /\ sessions[s].op = "execute_transaction" /\ sessions[s].pc = "done"
    /\ sessions[s].arg.children[1].tag = "Update"
    /\ sessions[s].out.kind = "TransactionResponse"
    /\ sessions[s].out.totalUpdated = 1

\* C28: when two transactions on separate sessions have each updated a
\* different property of the same feature and both have been answered with
\* a TransactionResponse, the feature's properties hold both changes.
C28_NoLostUpdate ==
    \A s \in Sessions, o \in Sessions :
        LET u == sessions[s].arg.children[1]
            v == sessions[o].arg.children[1]
        IN s # o /\ UpdateAnswered(s) /\ UpdateAnswered(o)
           /\ (DOMAIN u.prop_updates) \cap (DOMAIN v.prop_updates) = {}
           => \A i \in 1..Len(features) :
                 Targeted(features[i], u, layers) /\ Targeted(features[i], v, layers)
                    => /\ \A k \in DOMAIN u.prop_updates :
                             features[i].properties.items[k] = u.prop_updates[k]
                       /\ \A k \in DOMAIN v.prop_updates :
                             features[i].properties.items[k] = v.prop_updates[k]

\* Both handlers have answered: an upload next to a transaction, or two
\* uploads under different temp paths.
IngestsAnswered ==
    /\ \A s \in Sessions :
          /\ sessions[s].pc = "done"
          /\ sessions[s].op \in {"import_layer_file", "execute_transaction"}
    /\ \E s \in Sessions : sessions[s].op = "import_layer_file"
    /\ \A s \in Sessions, o \in Sessions :
          s # o /\ sessions[s].op = "import_layer_file"
                /\ sessions[o].op = "import_layer_file"
             => sessions[s].arg.path # sessions[o].arg.path

\* C29: once an upload and a transaction (or two uploads) that ran next
\* to each other on the same layer have all completed, the layer's
\* feature_count and bbox are the aggregate over the features then stored.
C29_StatsConverge ==
    IngestsAnswered =>
        \A id \in DOMAIN layers :
            /\ layers[id].feature_count = Cardinality(RowsOf(features, id))
            /\ layers[id].bbox = AggBBox(features, RowsOf(features, id))

====
